---- MODULE Spec2Model ----
(***************************************************************************)
(* vibe-dash: the Source Router (source-router.js) and the Widget          *)
(* Lifecycle Manager (widget-runtime.js) as one state machine.             *)
(*                                                                         *)
(* Conventions                                                             *)
(*   - JavaScript null is the value Null; a confidence c in [0,1] is the   *)
(*     integer 10*c; a match() that throws is the score MatchThrows.       *)
(*   - generateId() (crypto.randomUUID) is a fresh-value oracle: widget    *)
(*     ids and request ids are drawn from counters, request id UnknownId   *)
(*     is never issued.                                                    *)
(*   - Every provider call that has been dispatched and has not settled    *)
(*     is one copy of a call record in the bag `calls`.                    *)
(***************************************************************************)
EXTENDS Bags, FiniteSets, Integers, Sequences, TLC

\* ------------------------------------------------------------------ bounds
MaxWidgets   == 1      \* widgets ever created: persisted records and addWidget calls
MaxCalls     == 2      \* provider calls outstanding at once
MaxRequests  == 2      \* request ids the router issues
MaxBackgroundClarifications == 1  \* clarifications answered to refresh calls
MaxNow       == 1      \* the clock's last value
MaxFleet     == 2      \* widgets ever created in the specification of several widgets

\* --------------------------------------------------------------- constants
Null == -1
MatchThrows == -2
UnknownId == 0
DEBOUNCE_MS == 500
CONFIDENCE_THRESHOLD == 5
NumSources == 3

Sources == 1 .. NumSources
Confidences == {4, 5, 8, 10}
MatchOutcomes == Confidences \cup {MatchThrows}
MatchVectors == [Sources -> MatchOutcomes]
NoMatch == [s \in Sources |-> 4]
\* the match() behaviours in the specifications that are not about scoring:
\* no source qualifies, or source 1 throws and source 3 beats source 2
FewMatchVectors ==
  { NoMatch,
    [s \in Sources |-> IF s = 1 THEN MatchThrows ELSE IF s = 2 THEN 5 ELSE 10] }

\* the match() behaviour met by background refresh calls: source 3 wins
RefreshMatchVectors ==
  { [s \in Sources |-> IF s = 1 THEN MatchThrows ELSE IF s = 2 THEN 5 ELSE 10] }

EmptyObject == [k \in {} |-> ""]
LocationContext == [parameterKey |-> "location"]
Answers == {"Denver"}
Intervals == {Null, 0, 30}

Intent(a) ==
  [action |-> a, subject |-> "weather", parameters |-> [units |-> "metric"],
   raw |-> "Weather", targetWidgetId |-> Null]
ForegroundIntents == {Intent("create"), Intent("modify"), Intent("remove")}

NoResult == [kind |-> "none"]
NoIntent == [action |-> "none"]

\* what a provider's resolve() / the fallback's generate() can do
SuccessDescriptor ==
  [sourceId |-> "weather", title |-> "Weather now", size |-> "large",
   refreshIntervalMs |-> 30, data |-> 2, render |-> "weather-card",
   resolvedIntent |-> Intent("create")]
ProviderOutcomes ==
  { [kind |-> "success", descriptor |-> SuccessDescriptor],
    [kind |-> "clarification", request |-> [question |-> "Which city?"]],
    [kind |-> "clarification",
     request |-> [question |-> "Which city?", context |-> LocationContext]],
    [kind |-> "error", message |-> <<"fetch failed">>, retryable |-> TRUE],
    [kind |-> "raise"] }

VARIABLES
  \* Source Router
  aiGenerator,      \* TRUE iff a fallback generator was passed to the router
  pending,          \* requestId -> [source, intent, context]
  nextRequestId,    \* the next value of the router's generateId()
  calls,            \* bag of provider calls dispatched and not settled
  rlast,            \* trace of the last step of a foreground router call
  resumeLog,        \* per request id: the resume calls that reached a provider,
                    \* and whether one was answered "expired"
  \* Widget Lifecycle Manager
  widgets,          \* the ordered collection
  refreshTimers,    \* widget id -> interval handle
  liveIntervals,    \* bag of the interval handles not cleared
  refreshing,       \* widget ids with a refresh in flight
  nextWidgetId,     \* the next value of the runtime's generateId()
  bootPhase,        \* "none", "awaiting" (Promise.allSettled), "done"
  bootWaiting,      \* widget ids whose initial refresh has not settled
  persisted,        \* what persistence.load() returns
  now,              \* the last value Date.now() returned
  last,             \* what the runtime's last step did: emitted, saved, refreshed
  \* Orchestrator
  handled,          \* the last modify/remove intent handled: the collection it
                    \* met, the target resolved, the message, the call made
  \* Intent Parser
  parsed,           \* what parse returned for the last text it was given
  \* Persistence Layer
  debounceTimer,    \* the handle save keeps, Null before the first save
  timeouts,         \* handle -> [due, widgets]: the timeouts scheduled
  nextTimeout,      \* the handle the next setTimeout returns
  localStorage,     \* the item under STORAGE_KEY
  arrays,           \* the contents of the arrays the caller passes
  clock,            \* the time, in ticks
  lastCall,         \* the last call of save, flush or clear
  plast,            \* the last step of the persistence layer
  \* Chat Shell
  pendingClarification, \* the request a submitted text or a click answers
  chips,            \* the clarifications rendered: [requestId, disabled]
  emits,            \* the number of events the shell has emitted
  returned,         \* the result the router returned to the orchestrator,
                    \* which handleRouteResult has not handled yet
  slast,            \* the last step of the shell: what it emitted
  \* Updates during a refresh
  overlap           \* during: widget id -> the keys updateWidget set while
                    \* the widget's refresh call is outstanding; settled:
                    \* the last refresh call that settled and its keys

routerVars == <<aiGenerator, pending, nextRequestId, calls, rlast, resumeLog>>
runtimeVars == <<widgets, refreshTimers, liveIntervals, refreshing,
                 nextWidgetId, bootPhase, bootWaiting, persisted, now, last>>
orchestratorVars == <<handled>>
parserVars == <<parsed>>
persistenceVars == <<debounceTimer, timeouts, nextTimeout, localStorage,
                     arrays, clock, lastCall, plast>>
shellVars == <<pendingClarification, chips, emits, returned, slast>>
overlapVars == <<overlap>>
sideVars == <<parserVars, persistenceVars, shellVars, overlapVars>>
componentVars == <<routerVars, runtimeVars, orchestratorVars, parserVars,
                   shellVars, overlapVars>>
vars == <<routerVars, runtimeVars, orchestratorVars, sideVars>>

\* ===================================================================
\* Source Router
\* ===================================================================

\* route, lines 85-95: score every source in registration order; a throw
\* from match() is caught and the source skipped
RECURSIVE ScoreFromStrict(_, _)
ScoreFromStrict(m, i) ==
  IF i > NumSources THEN <<>>
  ELSE IF m[i] # MatchThrows /\ m[i] > CONFIDENCE_THRESHOLD
       THEN <<[source |-> i, confidence |-> m[i]]>> \o ScoreFromStrict(m, i + 1)
       ELSE ScoreFromStrict(m, i + 1)

RECURSIVE ScoreFromStopsAtThrow(_, _)
ScoreFromStopsAtThrow(m, i) ==
  IF i > NumSources THEN <<>>
  ELSE IF m[i] = MatchThrows THEN <<>>
  ELSE IF m[i] >= CONFIDENCE_THRESHOLD
       THEN <<[source |-> i, confidence |-> m[i]]>>
            \o ScoreFromStopsAtThrow(m, i + 1)
       ELSE ScoreFromStopsAtThrow(m, i + 1)

RECURSIVE ScoreFrom(_, _)
ScoreFrom(m, i) ==
  IF i > NumSources THEN <<>>
  ELSE IF m[i] # MatchThrows /\ m[i] >= CONFIDENCE_THRESHOLD
       THEN <<[source |-> i, confidence |-> m[i]]>> \o ScoreFrom(m, i + 1)
       ELSE ScoreFrom(m, i + 1)

\* Array.prototype.sort with (a, b) => b.confidence - a.confidence: a stable
\* sort, descending; x is placed behind every element that is not smaller
RECURSIVE InsertDescTieLast(_, _)
InsertDescTieLast(x, s) ==
  IF s = <<>> THEN <<x>>
  ELSE IF Head(s).confidence > x.confidence
       THEN <<Head(s)>> \o InsertDescTieLast(x, Tail(s))
       ELSE <<x>> \o s

RECURSIVE InsertDesc(_, _)
InsertDesc(x, s) ==
  IF s = <<>> THEN <<x>>
  ELSE IF Head(s).confidence >= x.confidence
       THEN <<Head(s)>> \o InsertDesc(x, Tail(s))
       ELSE <<x>> \o s

RECURSIVE SortDesc(_)
SortDesc(s) ==
  IF s = <<>> THEN <<>>
  ELSE InsertDesc(s[Len(s)], SortDesc(SubSeq(s, 1, Len(s) - 1)))

NotRoutable(intent) ==
  [kind |-> "error",
   message |-> <<"Cannot route", intent.action, "actions">>,
   retryable |-> FALSE]
NoGenerator ==
  [kind |-> "error",
   message |-> <<"no AI generator is configured">>,
   retryable |-> FALSE]
GeneratorFailedRetryable ==
  [kind |-> "error",
   message |-> <<"AI widget generation failed unexpectedly">>,
   retryable |-> TRUE]

GeneratorFailed ==
  [kind |-> "error",
   message |-> <<"AI widget generation failed unexpectedly">>,
   retryable |-> FALSE]
SourceFailed(src) ==
  [kind |-> "error",
   message |-> <<"Widget source", src, "failed unexpectedly">>,
   retryable |-> TRUE]
SourceFailedOnResumeFinal(src) ==
  [kind |-> "error",
   message |-> <<"Widget source", src, "failed on re-resolve">>,
   retryable |-> FALSE]

SourceFailedOnResume(src) ==
  [kind |-> "error",
   message |-> <<"Widget source", src, "failed on re-resolve">>,
   retryable |-> TRUE]
Expired ==
  [kind |-> "error",
   message |-> <<"That question has expired">>,
   retryable |-> FALSE]

\* route, lines 76-125, up to its first await: where the call goes.
\*   to = "return": route returns `result` without calling anything
\*   to = "fallback": aiGenerator.generate(intent) is called
\*   to = "source": sources[source].resolve(intent) is called
\* matched is the set of sources whose match() was invoked.
ChooseTarget(m, ai) ==
  LET scored == SortDesc(ScoreFrom(m, 1)) IN
  IF Len(scored) = 0
  THEN IF ~ai
       THEN [to |-> "return", source |-> 0, matched |-> Sources,
             result |-> NoGenerator]
       ELSE [to |-> "fallback", source |-> 0, matched |-> Sources,
             result |-> NoResult]
  ELSE [to |-> "source", source |-> scored[1].source, matched |-> Sources,
        result |-> NoResult]

RouteDispatchNoActionCheck(intent, m, ai) == ChooseTarget(m, ai)

RouteDispatch(intent, m, ai) ==
  IF intent.action # "create"
  THEN [to |-> "return", source |-> 0, matched |-> {},
        result |-> NotRoutable(intent)]
  ELSE ChooseTarget(m, ai)

\* storeClarification, lines 35-47
storeClarification(result, source, intent, pend, next) ==
  LET requestId == next
      context == IF "context" \in DOMAIN result.request
                 THEN result.request.context ELSE EmptyObject
      request == [k \in DOMAIN result.request \cup {"requestId"} |->
                    IF k = "requestId" THEN requestId ELSE result.request[k]]
  IN [result |-> [kind |-> "clarification", request |-> request],
      pending |-> [r \in DOMAIN pend \cup {requestId} |->
                     IF r = requestId
                     THEN [source |-> source, intent |-> intent, context |-> context]
                     ELSE pend[r]],
      next |-> next + 1]

mergeAnswerFreshParameters(originalIntent, answer, context) ==
  LET parameters ==
        IF "parameterKey" \in DOMAIN context
        THEN [k \in {context.parameterKey} |-> answer]
        ELSE originalIntent.parameters
  IN [originalIntent EXCEPT !.parameters = parameters, !.subject = answer]

\* mergeAnswer, lines 49-64
mergeAnswer(originalIntent, answer, context) ==
  LET parameters ==
        IF "parameterKey" \in DOMAIN context
        THEN [k \in DOMAIN originalIntent.parameters \cup {context.parameterKey} |->
                IF k = context.parameterKey THEN answer
                ELSE originalIntent.parameters[k]]
        ELSE originalIntent.parameters
  IN [originalIntent EXCEPT !.parameters = parameters, !.subject = answer]

\* mergeAnswer, lines 50-53: `modified` and its parameters are copies, and the
\* writes of lines 57 and 61 go to the copies; the object passed in is left
\* as it was
mergeAnswerLeaves(originalIntent, answer, context) == originalIntent

\* route lines 109-139 and resumeAfterClarification lines 163-180: what the
\* call returns once the provider call c has settled with `outcome`
SettleRaisePropagates(c, outcome, pend, next) ==
  IF c.to = "return"
  THEN [result |-> c.result, pending |-> pend, next |-> next]
  ELSE IF outcome.kind = "raise"
  THEN [result |-> [kind |-> "rejected"], pending |-> pend, next |-> next]
  ELSE IF c.to = "source" /\ outcome.kind = "clarification"
  THEN storeClarification(outcome, c.source, c.intent, pend, next)
  ELSE [result |-> outcome, pending |-> pend, next |-> next]

SettleCall(c, outcome, pend, next) ==
  IF c.to = "return"
  THEN [result |-> c.result, pending |-> pend, next |-> next]
  ELSE IF c.to = "fallback"
  THEN [result |-> IF outcome.kind = "raise" THEN GeneratorFailed ELSE outcome,
        pending |-> pend, next |-> next]
  ELSE IF outcome.kind = "raise"
  THEN [result |-> IF c.op = "resume" THEN SourceFailedOnResume(c.source)
                   ELSE SourceFailed(c.source),
        pending |-> pend, next |-> next]
  ELSE IF outcome.kind = "clarification"
  THEN storeClarification(outcome, c.source, c.intent, pend, next)
  ELSE [result |-> outcome, pending |-> pend, next |-> next]

\* resumeAfterClarification, lines 151-165, up to its await
ResumeDispatchKeepsEntry(pend, requestId, answer) ==
  IF requestId \notin DOMAIN pend
  THEN [found |-> FALSE, pending |-> pend, source |-> 0, intent |-> NoIntent,
        result |-> Expired]
  ELSE LET entry == pend[requestId] IN
       [found |-> TRUE, pending |-> pend, source |-> entry.source,
        intent |-> mergeAnswer(entry.intent, answer, entry.context),
        result |-> NoResult]

ResumeDispatchMissClears(pend, requestId, answer) ==
  IF requestId \notin DOMAIN pend
  THEN [found |-> FALSE, pending |-> EmptyObject, source |-> 0,
        intent |-> NoIntent, result |-> Expired]
  ELSE LET entry == pend[requestId] IN
       [found |-> TRUE,
        pending |-> [r \in DOMAIN pend \ {requestId} |-> pend[r]],
        source |-> entry.source,
        intent |-> mergeAnswer(entry.intent, answer, entry.context),
        result |-> NoResult]

ResumeDispatchClearsAll(pend, requestId, answer) ==
  IF requestId \notin DOMAIN pend
  THEN [found |-> FALSE, pending |-> pend, source |-> 0, intent |-> NoIntent,
        result |-> Expired]
  ELSE LET entry == pend[requestId] IN
       [found |-> TRUE,
        pending |-> EmptyObject,
        source |-> entry.source,
        intent |-> mergeAnswer(entry.intent, answer, entry.context),
        result |-> NoResult]

ResumeDispatch(pend, requestId, answer) ==
  IF requestId \notin DOMAIN pend
  THEN [found |-> FALSE, pending |-> pend, source |-> 0, intent |-> NoIntent,
        result |-> Expired]
  ELSE LET entry == pend[requestId] IN
       [found |-> TRUE,
        pending |-> [r \in DOMAIN pend \ {requestId} |-> pend[r]],
        source |-> entry.source,
        intent |-> mergeAnswer(entry.intent, answer, entry.context),
        result |-> NoResult]

IssuedIds == 1 .. (nextRequestId - 1)
Outstanding == BagCardinality(calls)

\* the route calls of refreshWidget(id) that are awaited (line 93) in the bag cs
OutstandingFor(cs, id) ==
  BagCardinality([c \in {x \in DOMAIN cs : x.by = id} |-> cs[c]])

\* a provider call: op is the router entry point, by the widget whose refresh
\* made the call (0: a foreground caller), reqId the resumed request id
Call(op, by, reqId, d, intent) ==
  [op |-> op, by |-> by, reqId |-> reqId, to |-> d.to, source |-> d.source,
   intent |-> intent, result |-> d.result]

\* the router's last step: a call ("call") or the completion of a provider
\* call ("settle"); issued = the request ids generated before the step;
\* done = the entry point returned `result` in this step
RouterStep(op, step, reqId, intent, m, d, done, result) ==
  [op |-> op, step |-> step, reqId |-> reqId, intent |-> intent,
   scores |-> m, matched |-> d.matched, to |-> d.to, source |-> d.source,
   issued |-> IssuedIds, done |-> done, result |-> result]

NoDispatch == [to |-> "none", source |-> 0, matched |-> {}, result |-> NoResult]

\* route(intent) by a foreground caller; m is what each source's match() does
Route(intent, m) ==
  LET d == RouteDispatch(intent, m, aiGenerator) IN
  /\ d.to # "return" => Outstanding < MaxCalls
  /\ calls' = IF d.to = "return" THEN calls
              ELSE calls (+) SetToBag({Call("route", 0, 0, d, intent)})
  /\ rlast' = RouterStep("route", "call", 0, intent, m, d,
                         d.to = "return", d.result)
  /\ UNCHANGED <<aiGenerator, pending, nextRequestId, resumeLog, runtimeVars>>

\* resumeAfterClarification(requestId, answer) by a foreground caller; the
\* step records the answer and what the stored intent object holds after
\* mergeAnswer has run
Resume(requestId, answer) ==
  LET r == ResumeDispatch(pending, requestId, answer)
      d == [to |-> IF r.found THEN "source" ELSE "return", source |-> r.source,
            matched |-> {}, result |-> r.result]
  IN
  /\ r.found => Outstanding < MaxCalls
  /\ pending' = r.pending
  /\ calls' = IF r.found
              THEN calls (+) SetToBag({Call("resume", 0, requestId, d, r.intent)})
              ELSE calls
  /\ resumeLog' = IF requestId \notin DOMAIN resumeLog THEN resumeLog
                  ELSE IF r.found
                  THEN [resumeLog EXCEPT ![requestId].reached = @ + 1]
                  ELSE [resumeLog EXCEPT ![requestId].expired = TRUE]
  /\ rlast' = LET step == RouterStep("resume", "call", requestId, r.intent,
                                     <<>>, d, ~r.found, r.result)
                   merged == [answer |-> answer,
                              stored |-> IF r.found
                                         THEN mergeAnswerLeaves(
                                                pending[requestId].intent,
                                                answer,
                                                pending[requestId].context)
                                         ELSE NoIntent]
               IN [k \in DOMAIN step \cup DOMAIN merged |->
                     IF k \in DOMAIN merged THEN merged[k] ELSE step[k]]
  /\ UNCHANGED <<aiGenerator, nextRequestId, runtimeVars>>

\* the provider call c of a foreground caller settles with `outcome`, which
\* the step records beside the result the entry point returns
Settle(c, outcome) ==
  LET s == SettleCall(c, outcome, pending, nextRequestId) IN
  /\ c.by = 0
  /\ s.next <= MaxRequests + 1
  /\ calls' = calls (-) SetToBag({c})
  /\ pending' = s.pending
  /\ nextRequestId' = s.next
  /\ rlast' = [op |-> c.op, step |-> "settle", reqId |-> c.reqId,
               intent |-> c.intent, scores |-> <<>>, matched |-> {},
               to |-> c.to, source |-> c.source, issued |-> IssuedIds,
               done |-> TRUE, result |-> s.result, outcome |-> outcome]
  /\ UNCHANGED <<aiGenerator, resumeLog, runtimeVars>>

\* ===================================================================
\* Widget Lifecycle Manager
\* ===================================================================

\* widget ids: the persisted records hold 1 .. Len(persisted), generateId()
\* returns the ids after them
FirstGeneratedId == Len(persisted) + 1
WidgetIds == 1 .. MaxWidgets

Ids(ws) == {ws[i].id : i \in DOMAIN ws}

\* findIndex, lines 56-58; 0 stands for JavaScript's -1
findIndex(ws, id) ==
  IF \E i \in DOMAIN ws : ws[i].id = id
  THEN CHOOSE i \in DOMAIN ws :
         /\ ws[i].id = id
         /\ \A j \in DOMAIN ws : ws[j].id = id => i <= j
  ELSE 0

Without(f, k) == [x \in DOMAIN f \ {k} |-> f[x]]
With(f, k, v) == [x \in DOMAIN f \cup {k} |-> IF x = k THEN v ELSE f[x]]

\* An interval handle is the record [id, ms] of what setInterval was given;
\* two intervals of one widget with one period are two copies of a handle in
\* the bag, and tick alike.
Handle(widget) == [id |-> widget.id, ms |-> widget.refreshIntervalMs]

\* the timer state T = [map: refreshTimers, live: liveIntervals]
Timers == [map |-> refreshTimers, live |-> liveIntervals]

\* startRefreshTimer, lines 62-69
startRefreshTimerAnyInterval(T, widget) ==
  [map |-> With(T.map, widget.id, Handle(widget)),
   live |-> T.live (+) SetToBag({Handle(widget)})]

startRefreshTimer(T, widget) ==
  IF widget.refreshIntervalMs = Null \/ widget.refreshIntervalMs = 0
  THEN T
  ELSE [map |-> With(T.map, widget.id, Handle(widget)),
        live |-> T.live (+) SetToBag({Handle(widget)})]

\* stopRefreshTimer, lines 71-77
stopRefreshTimerNoop(T, id) == T

stopRefreshTimer(T, id) ==
  IF id \in DOMAIN T.map
  THEN [map |-> Without(T.map, id), live |-> T.live (-) SetToBag({T.map[id]})]
  ELSE T

\* refreshWidget, lines 79-93, up to its await. R carries the state the
\* function touches: [refreshing, timers, calls]; m is what each
\* source's match() does for this route call
refreshWidgetNoGuard(R, ws, id, m, ai) ==
  LET idx == findIndex(ws, id) IN
  IF idx = 0
  THEN [R EXCEPT !.timers = stopRefreshTimer(R.timers, id), !.guard = "missing"]
  ELSE LET intent == ws[idx].resolvedIntent
           d == RouteDispatch(intent, m, ai)
       IN [refreshing |-> R.refreshing \cup {id},
           timers |-> R.timers,
           calls |-> R.calls (+) SetToBag({Call("route", id, 0, d, intent)}),
           guard |-> "started"]

refreshWidget(R, ws, id, m, ai) ==
  IF id \in R.refreshing THEN [R EXCEPT !.guard = "inflight"]
  ELSE LET idx == findIndex(ws, id) IN
  IF idx = 0
  THEN [R EXCEPT !.timers = stopRefreshTimer(R.timers, id), !.guard = "missing"]
  ELSE LET intent == ws[idx].resolvedIntent
           d == RouteDispatch(intent, m, ai)
       IN [refreshing |-> R.refreshing \cup {id},
           timers |-> R.timers,
           calls |-> R.calls (+) SetToBag({Call("route", id, 0, d, intent)}),
           guard |-> "started"]

RefreshState ==
  [refreshing |-> refreshing, timers |-> Timers, calls |-> calls,
   guard |-> "none"]

\* refreshWidget, lines 95-107, after its await: the collection after the
\* route call of widget id returned `result` at time t
ApplyRefreshUpsert(ws, id, result, t) ==
  LET idx == findIndex(ws, id) IN
  IF result.kind # "success" THEN [widgets |-> ws, changed |-> FALSE]
  ELSE IF idx = 0
  THEN [widgets |-> Append(ws, With(With(result.descriptor, "id", id),
                                    "lastUpdated", t)),
        changed |-> TRUE]
  ELSE [widgets |-> [ws EXCEPT ![idx] =
                       [@ EXCEPT !.data = result.descriptor.data,
                                 !.lastUpdated = t]],
        changed |-> TRUE]

ApplyRefreshReplaces(ws, id, result, t) ==
  LET currentIdx == findIndex(ws, id) IN
  IF currentIdx = 0 THEN [widgets |-> ws, changed |-> FALSE]
  ELSE IF result.kind = "success"
  THEN [widgets |-> [ws EXCEPT ![currentIdx] =
                       With(With(result.descriptor, "id", id), "lastUpdated", t)],
        changed |-> TRUE]
  ELSE [widgets |-> ws, changed |-> FALSE]

ApplyRefreshDropsOnFailure(ws, id, result, t) ==
  LET currentIdx == findIndex(ws, id) IN
  IF currentIdx = 0 THEN [widgets |-> ws, changed |-> FALSE]
  ELSE IF result.kind = "success"
  THEN [widgets |-> [ws EXCEPT ![currentIdx] =
                       [@ EXCEPT !.data = result.descriptor.data,
                                 !.lastUpdated = t]],
        changed |-> TRUE]
  ELSE [widgets |-> SubSeq(ws, 1, currentIdx - 1)
                      \o SubSeq(ws, currentIdx + 1, Len(ws)),
        changed |-> TRUE]

ApplyRefresh(ws, id, result, t) ==
  LET currentIdx == findIndex(ws, id) IN
  IF currentIdx = 0 THEN [widgets |-> ws, changed |-> FALSE]
  ELSE IF result.kind = "success"
  THEN [widgets |-> [ws EXCEPT ![currentIdx] =
                       [@ EXCEPT !.data = result.descriptor.data,
                                 !.lastUpdated = t]],
        changed |-> TRUE]
  ELSE [widgets |-> ws, changed |-> FALSE]

\* the runtime's last step; emitted / saved: the step called emitChanged() /
\* save(); refreshed: the kind of result router.route returned to the
\* refreshWidget that finished in the step ("none": no refresh finished)
RuntimeStep(emitted, saved) ==
  [emitted |-> emitted, saved |-> saved, refreshed |-> "none"]
RefreshStep(changed, kind) ==
  [emitted |-> changed, saved |-> changed, refreshed |-> kind]

Descriptor(ms) ==
  [sourceId |-> "weather", title |-> "Weather", size |-> "small",
   refreshIntervalMs |-> ms, data |-> 1, render |-> "weather-card",
   resolvedIntent |-> Intent("create")]
Descriptors == {Descriptor(ms) : ms \in Intervals}

PersistedWidget(i, ms) ==
  [id |-> i, sourceId |-> "weather", title |-> "Weather", size |-> "small",
   refreshIntervalMs |-> ms, render |-> "weather-card",
   resolvedIntent |-> Intent("create")]
\* the stores boot is run on: n records that all auto-refresh, n records
\* of which every other one has refreshIntervalMs null, or MaxFleet records
\* with any refreshIntervalMs
PersistedStores ==
  { [i \in 1 .. n |-> PersistedWidget(i, 30)] : n \in 0 .. MaxWidgets }
  \cup { [i \in 1 .. n |-> PersistedWidget(i, IF i % 2 = 1 THEN Null ELSE 30)] :
           n \in 1 .. MaxWidgets }
  \cup { [i \in 1 .. n |-> PersistedWidget(i, 30)] : n \in {0, MaxFleet} }
  \cup { [i \in 1 .. MaxFleet |-> PersistedWidget(i, ms[i])] :
           ms \in [1 .. MaxFleet -> Intervals] }

\* Date.now(): the clock moves on with every reading until it reaches MaxNow
DateNow == IF now < MaxNow THEN now + 1 ELSE now

IntervalPartials == { [refreshIntervalMs |-> ms] : ms \in {Null, 30} }

\* partials that carry id and resolvedIntent
IdentityPartials ==
  { [id |-> i, resolvedIntent |-> Intent("remove")] : i \in 1 .. MaxWidgets + 1 }

SetTimers(T) ==
  /\ refreshTimers' = T.map
  /\ liveIntervals' = T.live

\* addWidget, lines 128-139
AddWidget(descriptor, t) ==
  LET widget == With(With(descriptor, "id", nextWidgetId), "lastUpdated", t) IN
  /\ widgets' = Append(widgets, widget)
  /\ nextWidgetId' = nextWidgetId + 1
  /\ now' = t
  /\ SetTimers(startRefreshTimer(Timers, widget))
  /\ last' = RuntimeStep(TRUE, TRUE)
  /\ UNCHANGED <<refreshing, bootPhase, bootWaiting, persisted, routerVars>>

\* removeWidget, lines 145-152
RemoveWidget(id) ==
  LET idx == findIndex(widgets, id) IN
  IF idx = 0
  THEN /\ last' = RuntimeStep(FALSE, FALSE)
       /\ UNCHANGED <<widgets, refreshTimers, liveIntervals,
                      refreshing, nextWidgetId, bootPhase, bootWaiting,
                      persisted, now, routerVars>>
  ELSE /\ SetTimers(stopRefreshTimer(Timers, id))
       /\ widgets' = SubSeq(widgets, 1, idx - 1)
                       \o SubSeq(widgets, idx + 1, Len(widgets))
       /\ last' = RuntimeStep(TRUE, TRUE)
       /\ UNCHANGED <<refreshing, nextWidgetId, bootPhase, bootWaiting,
                      persisted, now, routerVars>>

\* updateWidget, lines 164-170: the record that replaces widgets[idx]
MergePartialOverwrites(old, partial, t) ==
  [k \in DOMAIN old \cup DOMAIN partial |->
     IF k = "lastUpdated" THEN t
     ELSE IF k \in DOMAIN partial THEN partial[k]
     ELSE old[k]]

MergePartial(old, partial, t) ==
  [k \in DOMAIN old \cup DOMAIN partial |->
     IF k = "id" THEN old.id
     ELSE IF k = "resolvedIntent" THEN old.resolvedIntent
     ELSE IF k = "lastUpdated" THEN t
     ELSE IF k \in DOMAIN partial THEN partial[k]
     ELSE old[k]]

\* updateWidget, lines 160-179
UpdateWidget(id, partial, t) ==
  LET idx == findIndex(widgets, id) IN
  IF idx = 0
  THEN /\ last' = RuntimeStep(FALSE, FALSE)
       /\ UNCHANGED <<widgets, refreshTimers, liveIntervals,
                      refreshing, nextWidgetId, bootPhase, bootWaiting,
                      persisted, now, routerVars>>
  ELSE LET old == widgets[idx]
           merged == MergePartial(old, partial, t)
       IN
       /\ widgets' = [widgets EXCEPT ![idx] = merged]
       /\ now' = t
       /\ SetTimers(IF "refreshIntervalMs" \in DOMAIN partial
                    THEN startRefreshTimer(stopRefreshTimer(Timers, id), merged)
                    ELSE Timers)
       /\ last' = RuntimeStep(TRUE, TRUE)
       /\ UNCHANGED <<refreshing, nextWidgetId, bootPhase, bootWaiting,
                      persisted, routerVars>>

\* reorderWidgets(orderedIds): the widgets named by orderedIds, in that order
RECURSIVE Named(_, _)
Named(ws, orderedIds) ==
  IF orderedIds = <<>> THEN <<>>
  ELSE LET idx == findIndex(ws, Head(orderedIds)) IN
       (IF idx = 0 THEN <<>> ELSE <<ws[idx]>>) \o Named(ws, Tail(orderedIds))

\* reorderWidgets(orderedIds): the widgets orderedIds does not name, in the
\* order they have
RECURSIVE Unnamed(_, _)
Unnamed(ws, orderedIds) ==
  IF ws = <<>> THEN <<>>
  ELSE (IF \E k \in DOMAIN orderedIds : orderedIds[k] = Head(ws).id
        THEN <<>> ELSE <<Head(ws)>>) \o Unnamed(Tail(ws), orderedIds)

reorderNamedOnly(ws, orderedIds) == Named(ws, orderedIds)

reorder(ws, orderedIds) == Named(ws, orderedIds) \o Unnamed(ws, orderedIds)

\* reorderWidgets(orderedIds): rewrites the order and saves; it does not emit
\* widgets:changed
ReorderWidgets(orderedIds) ==
  /\ widgets' = reorder(widgets, orderedIds)
  /\ last' = [emitted |-> FALSE, saved |-> TRUE, refreshed |-> "none",
              orderedIds |-> orderedIds]
  /\ UNCHANGED <<refreshTimers, liveIntervals, refreshing, nextWidgetId,
                 bootPhase, bootWaiting, persisted, now, routerVars>>

\* a live interval h fires: () => refreshWidget(widget.id), lines 64-67
TimerTick(h, m) ==
  LET id == h.id
      R == refreshWidget(RefreshState, widgets, id, m, aiGenerator)
  IN
  /\ R.guard = "started" => Outstanding < MaxCalls
  /\ refreshing' = R.refreshing
  /\ SetTimers(R.timers)
  /\ calls' = R.calls
  /\ last' = RuntimeStep(FALSE, FALSE)
  /\ UNCHANGED <<widgets, nextWidgetId, bootPhase, bootWaiting, persisted, now,
                 aiGenerator, pending, nextRequestId, rlast, resumeLog>>

\* boot, lines 196-200: hydrate the persisted records
Hydrate(store) ==
  [i \in DOMAIN store |->
     With(With(store[i], "data", Null), "lastUpdated", 0)]

RECURSIVE BootRefreshAll(_, _, _, _, _)
BootRefreshAll(R, ws, i, mv, ai) ==
  IF i > Len(ws) THEN R
  ELSE BootRefreshAll(refreshWidget(R, ws, ws[i].id, mv[i], ai), ws, i + 1, mv, ai)

\* boot, lines 206-209: refreshWidget(w.id) for every widget from position i
\* on whose refreshIntervalMs != null, each run up to its await
RECURSIVE BootRefresh(_, _, _, _, _)
BootRefresh(R, ws, i, mv, ai) ==
  IF i > Len(ws) THEN R
  ELSE IF ws[i].refreshIntervalMs # Null
       THEN BootRefresh(refreshWidget(R, ws, ws[i].id, mv[i], ai), ws, i + 1, mv, ai)
       ELSE BootRefresh(R, ws, i + 1, mv, ai)

\* boot, lines 212-214: startRefreshTimer for every widget from position i on
RECURSIVE StartAll(_, _, _)
StartAll(T, ws, i) ==
  IF i > Len(ws) THEN T
  ELSE StartAll(startRefreshTimer(T, ws[i]), ws, i + 1)

\* boot, lines 202-209: emitChanged() publishes a copy of the hydrated
\* collection; `before` and `after` are the route calls outstanding before
\* and after the refresh pass that follows it
emittedAtBootAfterPass(ws, before, after) ==
  [widgets |-> ws, outstanding |-> BagCardinality(after)]

emittedAtBoot(ws, before, after) ==
  [widgets |-> ws, outstanding |-> BagCardinality(before)]

BootStep(published) ==
  [emitted |-> TRUE, saved |-> FALSE, refreshed |-> "none",
   published |-> published]

\* boot, lines 192-214. main.js calls boot once, at load, before any widget
\* can be added. boot runs up to await Promise.allSettled; when the pass
\* started no route call, its continuation (lines 211-214) follows in the
\* same turn of the event loop, before any other handler.
Boot(mv) ==
  LET ws == Hydrate(persisted)
      R == BootRefresh(RefreshState, ws, 1, mv, aiGenerator)
      waiting == R.refreshing \ refreshing
  IN
  /\ bootPhase = "none"
  /\ nextWidgetId = FirstGeneratedId
  /\ widgets' = ws
  /\ refreshing' = R.refreshing
  /\ calls' = R.calls
  /\ SetTimers(IF waiting = {} THEN StartAll(R.timers, ws, 1) ELSE R.timers)
  /\ bootPhase' = IF waiting = {} THEN "done" ELSE "awaiting"
  /\ bootWaiting' = waiting
  /\ last' = BootStep(emittedAtBoot(ws, calls, R.calls))
  /\ UNCHANGED <<nextWidgetId, persisted, now, aiGenerator, pending,
                 nextRequestId, rlast, resumeLog>>

\* what the provider call c can settle with
SettleOutcomes(c) == IF c.to = "return" THEN {NoResult} ELSE ProviderOutcomes

RefreshSettleLeavesMarkerOnError(c, outcome, t) ==
  LET s == SettleCall(c, outcome, pending, nextRequestId)
      a == ApplyRefresh(widgets, c.by, s.result, t)
      bootResumes == bootPhase = "awaiting" /\ bootWaiting \ {c.by} = {}
  IN
  /\ c.by # 0
  /\ s.next <= MaxRequests + 1
  /\ now' = IF a.changed THEN t ELSE now
  /\ calls' = calls (-) SetToBag({c})
  /\ pending' = s.pending
  /\ nextRequestId' = s.next
  /\ widgets' = a.widgets
  /\ refreshing' = IF s.result.kind = "error" THEN refreshing
                   ELSE refreshing \ {c.by}
  /\ bootWaiting' = bootWaiting \ {c.by}
  /\ SetTimers(IF bootResumes THEN StartAll(Timers, a.widgets, 1) ELSE Timers)
  /\ bootPhase' = IF bootResumes THEN "done" ELSE bootPhase
  /\ last' = RefreshStep(a.changed, s.result.kind)
  /\ UNCHANGED <<nextWidgetId, persisted, aiGenerator, rlast, resumeLog>>

\* the route call made by refreshWidget for widget c.by settles, and
\* refreshWidget runs from its await to its end, lines 93-115; when it was the
\* last refresh boot was awaiting, boot's continuation (lines 211-214) runs
\* in the same turn of the event loop
RefreshSettle(c, outcome, t) ==
  LET s == SettleCall(c, outcome, pending, nextRequestId)
      a == ApplyRefresh(widgets, c.by, s.result, t)
      bootResumes == bootPhase = "awaiting" /\ bootWaiting \ {c.by} = {}
  IN
  /\ c.by # 0
  /\ s.next <= MaxRequests + 1
  /\ now' = IF a.changed THEN t ELSE now
  /\ calls' = calls (-) SetToBag({c})
  /\ pending' = s.pending
  /\ nextRequestId' = s.next
  /\ widgets' = a.widgets
  /\ refreshing' = refreshing \ {c.by}
  /\ bootWaiting' = bootWaiting \ {c.by}
  /\ SetTimers(IF bootResumes THEN StartAll(Timers, a.widgets, 1) ELSE Timers)
  /\ bootPhase' = IF bootResumes THEN "done" ELSE bootPhase
  /\ last' = RefreshStep(a.changed, s.result.kind)
  /\ UNCHANGED <<nextWidgetId, persisted, aiGenerator, rlast, resumeLog>>

\* ===================================================================
\* Specifications
\* ===================================================================

\* no modify or remove intent has been handled yet
NoneHandled ==
  [op |-> "none", intent |-> NoIntent, before |-> <<>>, target |-> Null,
   message |-> "none", applied |-> "none"]

\* ===================================================================
\* Persistence Layer (src/unnamed/part_001)
\* ===================================================================

\* MaxClock bounds the clock, counted in ticks of TickMs milliseconds, and
\* MaxTimeouts the number of setTimeout calls
TickMs == 250
MaxClock == 4
MaxTimeouts == 3
DebounceTicks == DEBOUNCE_MS \div TickMs

PERSISTED_KEYS ==
  {"id", "sourceId", "title", "size", "refreshIntervalMs", "render",
   "resolvedIntent"}

stripForPersistence(widget) ==
  [key \in PERSISTED_KEYS \cap DOMAIN widget |-> widget[key]]

\* widgets.map(stripForPersistence) and JSON.stringify of it: the values of
\* the persisted keys are strings, numbers and plain objects, which the
\* text in the store denotes one to one
Stripped(collection) ==
  [i \in DOMAIN collection |-> stripForPersistence(collection[i])]

\* the arrays a caller hands to save and flush, and what they can hold
ArrayRefs == {1, 2}
StoredWidget(id, title, data) ==
  [id |-> id, sourceId |-> "crypto", title |-> title, size |-> "medium",
   data |-> data, lastUpdated |-> 1]
Collections ==
  { <<>>,
    <<StoredWidget("w1", "Bitcoin", 1)>>,
    <<StoredWidget("w1", "BTC", 2), StoredWidget("w2", "Oslo", 1)>> }

NoCall == [op |-> "none"]

\* localStorage.getItem(STORAGE_KEY): null or the text setItem stored
NoItem == [stored |-> FALSE]
Item(stripped) == [stored |-> TRUE, value |-> stripped]

\* clearTimeout(debounceTimer): a handle that is not scheduled, null
\* included, is ignored
clearTimeout(scheduled, handle) ==
  [h \in DOMAIN scheduled \ {handle} |-> scheduled[h]]

saveKeepsTimeout(ref) ==
  /\ nextTimeout <= MaxTimeouts
  /\ timeouts' = timeouts
                   @@ (nextTimeout :> [due |-> clock + DebounceTicks,
                                       widgets |-> ref])
  /\ debounceTimer' = nextTimeout
  /\ nextTimeout' = nextTimeout + 1
  /\ lastCall' = [op |-> "save", at |-> clock, widgets |-> ref,
                  cancelled |-> debounceTimer \in DOMAIN timeouts]
  /\ plast' = [op |-> "save", handle |-> nextTimeout]
  /\ UNCHANGED <<localStorage, clock, arrays>>

\* save, lines 34-47: the callback keeps the array, not its contents
save(ref) ==
  /\ nextTimeout <= MaxTimeouts
  /\ timeouts' = clearTimeout(timeouts, debounceTimer)
                   @@ (nextTimeout :> [due |-> clock + DebounceTicks,
                                       widgets |-> ref])
  /\ debounceTimer' = nextTimeout
  /\ nextTimeout' = nextTimeout + 1
  /\ lastCall' = [op |-> "save", at |-> clock, widgets |-> ref,
                  cancelled |-> debounceTimer \in DOMAIN timeouts]
  /\ plast' = [op |-> "save", handle |-> nextTimeout]
  /\ UNCHANGED <<localStorage, clock, arrays>>

\* the callback of save's setTimeout, lines 36-46, run by the timer once
\* its delay has elapsed; setItem raises when the quota is exceeded
DebounceTimeout(handle, quotaExceeded) ==
  /\ handle \in DOMAIN timeouts
  /\ timeouts[handle].due <= clock
  /\ timeouts' = Without(timeouts, handle)
  /\ localStorage' = IF quotaExceeded THEN localStorage
                     ELSE Item(Stripped(arrays[timeouts[handle].widgets]))
  /\ plast' = [op |-> "timeout", handle |-> handle, at |-> clock,
               widgets |-> timeouts[handle].widgets,
               written |-> ~quotaExceeded]
  /\ UNCHANGED <<debounceTimer, nextTimeout, lastCall, clock, arrays>>

\* load, lines 53-76, of a store that holds what save or flush wrote
load ==
  /\ plast' = [op |-> "load",
               result |-> IF ~localStorage.stored THEN <<>>
                          ELSE SelectSeq(localStorage.value,
                                 LAMBDA w : {"id", "sourceId"} \subseteq DOMAIN w)]
  /\ UNCHANGED <<debounceTimer, timeouts, nextTimeout, localStorage, lastCall,
                 clock, arrays>>

\* flush, lines 79-87
flush(ref, quotaExceeded) ==
  /\ timeouts' = clearTimeout(timeouts, debounceTimer)
  /\ localStorage' = IF quotaExceeded THEN localStorage
                     ELSE Item(Stripped(arrays[ref]))
  /\ lastCall' = [op |-> "flush", at |-> clock,
                  stripped |-> Stripped(arrays[ref]),
                  written |-> ~quotaExceeded,
                  cancelled |-> debounceTimer \in DOMAIN timeouts]
  /\ plast' = [op |-> "flush", written |-> ~quotaExceeded]
  /\ UNCHANGED <<debounceTimer, nextTimeout, clock, arrays>>

clearKeepsTimeout ==
  /\ timeouts' = timeouts
  /\ localStorage' = NoItem
  /\ lastCall' = [op |-> "clear", at |-> clock,
                  cancelled |-> debounceTimer \in DOMAIN timeouts]
  /\ plast' = [op |-> "clear"]
  /\ UNCHANGED <<debounceTimer, nextTimeout, clock, arrays>>

\* clear, lines 90-93
clear ==
  /\ timeouts' = clearTimeout(timeouts, debounceTimer)
  /\ localStorage' = NoItem
  /\ lastCall' = [op |-> "clear", at |-> clock,
                  cancelled |-> debounceTimer \in DOMAIN timeouts]
  /\ plast' = [op |-> "clear"]
  /\ UNCHANGED <<debounceTimer, nextTimeout, clock, arrays>>

\* the caller changes an array it owns in place, as the Lifecycle Manager
\* does with push, splice and an assignment to an index
MutateArray(ref, collection) ==
  /\ arrays[ref] # collection
  /\ arrays' = [arrays EXCEPT ![ref] = collection]
  /\ UNCHANGED <<debounceTimer, timeouts, nextTimeout, localStorage, lastCall,
                 plast, clock>>

\* time passes
ClockTick ==
  /\ clock < MaxClock
  /\ clock' = clock + 1
  /\ UNCHANGED <<debounceTimer, timeouts, nextTimeout, localStorage, lastCall,
                 plast, arrays>>

PersistenceNext ==
  \/ \E ref \in ArrayRefs : save(ref) /\ UNCHANGED componentVars
  \/ \E handle \in DOMAIN timeouts, quotaExceeded \in BOOLEAN :
       DebounceTimeout(handle, quotaExceeded) /\ UNCHANGED componentVars
  \/ load /\ UNCHANGED componentVars
  \/ \E ref \in ArrayRefs, quotaExceeded \in BOOLEAN :
       flush(ref, quotaExceeded) /\ UNCHANGED componentVars
  \/ clear /\ UNCHANGED componentVars
  \/ \E ref \in ArrayRefs, collection \in Collections :
       MutateArray(ref, collection) /\ UNCHANGED componentVars
  \/ ClockTick /\ UNCHANGED componentVars

\* no text has been parsed yet
NotParsed == [raw |-> <<"none">>]

\* the router, the runtime, the orchestrator, the persistence layer and
\* the chat shell after construction
ComponentsInit ==
  /\ aiGenerator \in BOOLEAN
  /\ pending = EmptyObject
  /\ nextRequestId = 1
  /\ calls = EmptyBag
  /\ rlast = RouterStep("none", "none", 0, NoIntent, <<>>, NoDispatch,
                        FALSE, NoResult)
  /\ resumeLog = [r \in 1 .. MaxRequests |-> [reached |-> 0, expired |-> FALSE]]
  /\ widgets = <<>>
  /\ refreshTimers = EmptyObject
  /\ liveIntervals = EmptyBag
  /\ refreshing = {}
  /\ persisted \in PersistedStores
  /\ nextWidgetId = FirstGeneratedId
  /\ bootPhase = "none"
  /\ bootWaiting = {}
  /\ now = 1
  /\ last = RuntimeStep(FALSE, FALSE)
  /\ handled = NoneHandled
  /\ debounceTimer = Null
  /\ timeouts = EmptyObject
  /\ nextTimeout = 1
  /\ localStorage = NoItem
  /\ arrays = [ref \in ArrayRefs |-> <<>>]
  /\ clock = 0
  /\ lastCall = NoCall
  /\ plast = NoCall
  /\ pendingClarification = [requested |-> FALSE]
  /\ chips = <<>>
  /\ emits = 0
  /\ returned = NoResult
  /\ slast = [op |-> "none", text |-> <<>>, chip |-> 0, seq |-> 0,
              emitted |-> [event |-> "none"]]
  /\ overlap = [during |-> EmptyObject, settled |-> [kind |-> "none"]]

Init == ComponentsInit /\ parsed = NotParsed

\* the Lifecycle Manager, with the Router underneath its refresh calls
Next ==
  \/ \E mv \in [DOMAIN persisted -> RefreshMatchVectors] :
       Boot(mv) /\ UNCHANGED <<orchestratorVars, sideVars>>
  \/ \E d \in Descriptors, t \in {DateNow} :
       /\ nextWidgetId <= MaxWidgets
       /\ AddWidget(d, t)
       /\ UNCHANGED <<orchestratorVars, sideVars>>
  \/ \E id \in WidgetIds : RemoveWidget(id) /\ UNCHANGED <<orchestratorVars, sideVars>>
  \/ \E id \in WidgetIds, p \in IntervalPartials \cup IdentityPartials,
          t \in {DateNow} :
       UpdateWidget(id, p, t) /\ UNCHANGED <<orchestratorVars, sideVars>>
  \/ \E h \in BagToSet(liveIntervals), m \in RefreshMatchVectors :
       TimerTick(h, m) /\ UNCHANGED <<orchestratorVars, sideVars>>
  \/ \E c \in BagToSet(calls) : \E o \in SettleOutcomes(c), t \in {DateNow} :
       /\ o.kind = "clarification" =>
            /\ nextRequestId <= MaxBackgroundClarifications
            /\ "context" \in DOMAIN o.request
       /\ RefreshSettle(c, o, t)
       /\ UNCHANGED <<orchestratorVars, sideVars>>

\* main.js always passes a fallback generator to the router
RuntimeInit == Init /\ aiGenerator /\ Len(persisted) <= MaxWidgets

Spec == RuntimeInit /\ [][Next]_vars

\* the Source Router under foreground callers
\* several widgets side by side: the store is empty or full, every widget
\* auto-refreshes, providers answer with success or error
FleetIds == 1 .. MaxFleet
FleetInit == Init /\ aiGenerator /\ Len(persisted) \in {0, MaxFleet}

\* the sequences of distinct ids, one of them the id of no widget
RouterInit == Init /\ persisted = <<>>

RECURSIVE Orderings(_)
Orderings(ids) ==
  {<<>>} \cup UNION { { <<i>> \o o : o \in Orderings(ids \ {i}) } : i \in ids }

FleetNext ==
  \/ \E mv \in [DOMAIN persisted -> RefreshMatchVectors] :
       Boot(mv) /\ UNCHANGED <<orchestratorVars, sideVars>>
  \/ /\ nextWidgetId <= MaxFleet
     /\ AddWidget(Descriptor(30), DateNow)
     /\ UNCHANGED <<orchestratorVars, sideVars>>
  \/ \E id \in FleetIds : RemoveWidget(id) /\ UNCHANGED <<orchestratorVars, sideVars>>
  \/ \E id \in FleetIds, i \in FleetIds :
       /\ UpdateWidget(id, [id |-> i, resolvedIntent |-> Intent("remove")],
                       DateNow)
       /\ UNCHANGED <<orchestratorVars, sideVars>>
  \/ \E h \in BagToSet(liveIntervals), m \in RefreshMatchVectors :
       TimerTick(h, m) /\ UNCHANGED <<orchestratorVars, sideVars>>
  \/ \E c \in BagToSet(calls) : \E o \in SettleOutcomes(c) :
       /\ o.kind \in {"success", "error"}
       /\ RefreshSettle(c, o, DateNow)
       /\ UNCHANGED <<orchestratorVars, sideVars>>

FleetSpec == FleetInit /\ [][FleetNext]_vars

\* the order of the collection: widgets are added, removed and reordered
ReorderNext ==
  \/ /\ nextWidgetId <= MaxFleet
     /\ AddWidget(Descriptor(Null), DateNow)
     /\ UNCHANGED <<orchestratorVars, sideVars>>
  \/ \E id \in FleetIds : RemoveWidget(id) /\ UNCHANGED <<orchestratorVars, sideVars>>
  \/ \E o \in Orderings(1 .. MaxFleet + 1) :
       ReorderWidgets(o) /\ UNCHANGED <<orchestratorVars, sideVars>>

ReorderInit == RouterInit /\ aiGenerator

ReorderSpec == ReorderInit /\ [][ReorderNext]_vars

\* ===================================================================
\* Orchestrator: target resolution for modify and remove (main.js)
\* ===================================================================
\* Text is a sequence of characters, so that toLowerCase, split and includes
\* are computed as the code computes them.
MaxTargets == 2

LowerCaseLetters ==
  <<"a", "b", "c", "d", "e", "f", "g", "h", "i", "j", "k", "l", "m", "n",
    "o", "p", "q", "r", "s", "t", "u", "v", "w", "x", "y", "z">>
UpperCaseLetters ==
  <<"A", "B", "C", "D", "E", "F", "G", "H", "I", "J", "K", "L", "M", "N",
    "O", "P", "Q", "R", "S", "T", "U", "V", "W", "X", "Y", "Z">>

\* the lower-case letter of every upper-case letter
LowerCaseOf ==
  [c \in {UpperCaseLetters[k] : k \in DOMAIN UpperCaseLetters} |->
     LowerCaseLetters[CHOOSE k \in DOMAIN UpperCaseLetters :
                        UpperCaseLetters[k] = c]]

toLowerCase(s) ==
  [i \in DOMAIN s |->
     IF s[i] \in DOMAIN LowerCaseOf THEN LowerCaseOf[s[i]] ELSE s[i]]

\* s.split(/\s+/): the pieces between the runs of white space; a leading or
\* trailing run leaves an empty piece, the empty text is one empty piece
RECURSIVE SplitFrom(_, _, _)
SplitFrom(s, piece, inSpace) ==
  IF s = <<>> THEN <<piece>>
  ELSE IF Head(s) = " "
       THEN IF inSpace THEN SplitFrom(Tail(s), piece, TRUE)
            ELSE <<piece>> \o SplitFrom(Tail(s), <<>>, TRUE)
       ELSE SplitFrom(Tail(s), Append(piece, Head(s)), FALSE)

split(s) == SplitFrom(s, <<>>, FALSE)

\* haystack.includes(kw)
includes(haystack, kw) ==
  \E i \in 1 .. Len(haystack) - Len(kw) + 1 :
    SubSeq(haystack, i, i + Len(kw) - 1) = kw

ACTION_NOISE ==
  {<<"r", "e", "m", "o", "v", "e">>,
   <<"d", "e", "l", "e", "t", "e">>,
   <<"c", "l", "o", "s", "e">>,
   <<"d", "i", "s", "m", "i", "s", "s">>,
   <<"h", "i", "d", "e">>,
   <<"c", "l", "e", "a", "r">>,
   <<"c", "h", "a", "n", "g", "e">>,
   <<"m", "a", "k", "e">>,
   <<"u", "p", "d", "a", "t", "e">>,
   <<"s", "w", "i", "t", "c", "h">>,
   <<"m", "o", "d", "i", "f", "y">>,
   <<"r", "e", "s", "i", "z", "e">>,
   <<"i", "t">>,
   <<"t", "h", "a", "t">>,
   <<"t", "h", "i", "s">>,
   <<"t", "h", "e">>,
   <<"a">>,
   <<"o", "n", "e">>,
   <<"w", "i", "d", "g", "e", "t">>,
   <<"b", "i", "g", "g", "e", "r">>,
   <<"s", "m", "a", "l", "l", "e", "r">>}

Elements(s) == {s[i] : i \in DOMAIN s}

\* the Set of the words of subject and raw, without the words of one letter
\* or less and without the stop list
Keywords(intent) ==
  {w \in Elements(split(toLowerCase(intent.subject)))
           \cup Elements(split(toLowerCase(intent.raw))) :
     Len(w) > 1 /\ w \notin ACTION_NOISE}

Haystack(w) ==
  toLowerCase(w.sourceId \o <<" ">> \o w.title \o <<" ">>
                \o w.resolvedIntent.subject)

Hits(w, keywords) == Cardinality({kw \in keywords : includes(Haystack(w), kw)})

\* scored.sort((a, b) => b.hits - a.hits): descending, equal hits keep order
InsertByHits(s, sorted) ==
  LET before == {i \in DOMAIN sorted : sorted[i].hits >= s.hits}
      k == Cardinality(before)
  IN SubSeq(sorted, 1, k) \o <<s>> \o SubSeq(sorted, k + 1, Len(sorted))

RECURSIVE SortByHits(_)
SortByHits(scored) ==
  IF scored = <<>> THEN <<>>
  ELSE InsertByHits(scored[Len(scored)],
                    SortByHits(SubSeq(scored, 1, Len(scored) - 1)))

Param(intent, key) ==
  IF key \in DOMAIN intent.parameters THEN intent.parameters[key] ELSE <<>>

CoinMatches(intent, ws) ==
  SelectSeq(ws, LAMBDA w : /\ "coin" \in DOMAIN w.resolvedIntent.parameters
                           /\ w.resolvedIntent.parameters.coin
                                = intent.parameters.coin)

LocationMatches(intent, ws) ==
  SelectSeq(ws, LAMBDA w :
    /\ "location" \in DOMAIN w.resolvedIntent.parameters
    /\ toLowerCase(w.resolvedIntent.parameters.location)
         = toLowerCase(intent.parameters.location))

Scored(keywords, ws) ==
  SelectSeq([i \in DOMAIN ws |->
               [widget |-> ws[i].id, hits |-> Hits(ws[i], keywords)]],
            LAMBDA s : s.hits > 0)

Target(id) == [target |-> id, message |-> "none"]
NoTarget(kind) == [target |-> Null, message |-> kind]

\* step 3 of resolveTarget: the text match
TextMatchTakesTie(intent, ws) ==
  LET keywords == Keywords(intent)
      scored == SortByHits(Scored(keywords, ws))
  IN IF keywords # {} /\ Len(scored) >= 1
     THEN Target(scored[1].widget)
     ELSE NoTarget("info")

TextMatch(intent, ws) ==
  LET keywords == Keywords(intent)
      scored == SortByHits(Scored(keywords, ws))
  IN IF keywords # {} /\ Len(scored) = 1
     THEN Target(scored[1].widget)
     ELSE IF keywords # {} /\ Len(scored) > 1
               /\ scored[1].hits > scored[2].hits
     THEN Target(scored[1].widget)
     ELSE NoTarget("info")

ResolveAmongSeveralStopsOnParameter(intent, ws) ==
  IF Param(intent, "coin") # <<>>
  THEN IF Len(CoinMatches(intent, ws)) = 1
       THEN Target(CoinMatches(intent, ws)[1].id)
       ELSE NoTarget("info")
  ELSE IF Param(intent, "location") # <<>>
  THEN IF Len(LocationMatches(intent, ws)) = 1
       THEN Target(LocationMatches(intent, ws)[1].id)
       ELSE NoTarget("info")
  ELSE TextMatch(intent, ws)

\* steps 2 to 4 of resolveTarget: two widgets or more
ResolveAmongSeveral(intent, ws) ==
  IF Param(intent, "coin") # <<>> /\ Len(CoinMatches(intent, ws)) = 1
  THEN Target(CoinMatches(intent, ws)[1].id)
  ELSE IF Param(intent, "location") # <<>>
            /\ Len(LocationMatches(intent, ws)) = 1
  THEN Target(LocationMatches(intent, ws)[1].id)
  ELSE TextMatch(intent, ws)

\* the widget returned is given by its id; the handlers read its id and title
resolveTargetNoShortcut(intent, ws) ==
  IF Len(ws) = 0 THEN NoTarget("error")
  ELSE ResolveAmongSeveral(intent, ws)

resolveTarget(intent, ws) ==
  IF Len(ws) = 0 THEN NoTarget("error")
  ELSE IF Len(ws) = 1 THEN Target(ws[1].id)
  ELSE ResolveAmongSeveral(intent, ws)

Handled(op, intent, r, message, applied) ==
  [op |-> op, intent |-> intent, before |-> widgets, target |-> r.target,
   message |-> message, applied |-> applied]

SizePartial(intent) ==
  IF "size" \in DOMAIN intent.parameters
  THEN [size |-> intent.parameters.size]
  ELSE EmptyObject

HandleModify(intent, t) ==
  LET r == resolveTarget(intent, widgets)
      partial == SizePartial(intent)
  IN IF r.target = Null
     THEN /\ handled' = Handled("modify", intent, r, r.message, "none")
          /\ UNCHANGED <<routerVars, runtimeVars>>
     ELSE IF DOMAIN partial = {}
     THEN /\ handled' = Handled("modify", intent, r, "info", "none")
          /\ UNCHANGED <<routerVars, runtimeVars>>
     ELSE /\ UpdateWidget(r.target, partial, t)
          /\ handled' = Handled("modify", intent, r, "success", "updateWidget")

\* what handleRemove does with the target it was given
RemoveTargetUnguarded(r) ==
  RemoveWidget(IF r.target = Null /\ widgets # <<>>
               THEN widgets[1].id ELSE r.target)

RemoveTarget(r) ==
  IF r.target = Null
  THEN UNCHANGED <<routerVars, runtimeVars>>
  ELSE RemoveWidget(r.target)

HandleRemove(intent) ==
  LET r == resolveTarget(intent, widgets) IN
  /\ RemoveTarget(r)
  /\ handled' = Handled("remove", intent, r,
                        IF r.target = Null THEN r.message ELSE "success",
                        IF r.target = Null THEN "none" ELSE "removeWidget")

\* widgets with the sourceId, title, subject and parameters the weather and
\* crypto sources give them; of these only the weather widget auto-refreshes
TargetDescriptors ==
  LET weather == <<"w", "e", "a", "t", "h", "e", "r">>
      crypto == <<"c", "r", "y", "p", "t", "o">>
      bitcoin == <<"b", "i", "t", "c", "o", "i", "n">>
      ethereum == <<"e", "t", "h", "e", "r", "e", "u", "m">>
      oslo == <<"O", "s", "l", "o">>
      W(sourceId, title, ms, subject, parameters) ==
        [sourceId |-> sourceId, title |-> title, size |-> "small",
         refreshIntervalMs |-> ms, data |-> 1, render |-> "card",
         resolvedIntent |->
           [action |-> "create", subject |-> subject,
            parameters |-> parameters, raw |-> subject,
            targetWidgetId |-> Null]]
  IN { W(weather, <<"W", "e", "a", "t", "h", "e", "r", " ", "-", " ", "O", "s", "l", "o">>, 30,
         weather, [location |-> oslo]),
       W(crypto, <<"B", "i", "t", "c", "o", "i", "n", " ", "(", "B", "T", "C", ")">>, Null,
         bitcoin, [coin |-> bitcoin]),
       W(crypto, <<"E", "t", "h", "e", "r", "e", "u", "m", " ", "(", "E", "T", "H", ")">>, Null,
         ethereum, [coin |-> ethereum]) }

\* modify and remove utterances as the parser hands them over: the words of
\* the text, the subject left after the action words, coin/location/size
Utterances ==
  LET U(raw, subject, parameters) ==
        [raw |-> raw, subject |-> subject, parameters |-> parameters]
  IN { U(<<"r", "e", "m", "o", "v", "e", " ", "t", "h", "e", " ", "w", "e", "a", "t", "h", "e", "r", " ", "w", "i", "d", "g", "e", "t">>,
         <<>>, EmptyObject),
       U(<<"m", "a", "k", "e", " ", "i", "t", " ", "b", "i", "g", "g", "e", "r">>,
         <<"i", "t">>, [size |-> "large"]),
       U(<<"r", "e", "m", "o", "v", "e", " ", "B", "i", "t", "c", "o", "i", "n">>,
         <<"B", "i", "t", "c", "o", "i", "n">>,
         [coin |-> <<"b", "i", "t", "c", "o", "i", "n">>]),
       U(<<"r", "e", "m", "o", "v", "e", " ", "c", "r", "y", "p", "t", "o">>,
         <<"c", "r", "y", "p", "t", "o">>, EmptyObject),
       U(<<"c", "l", "o", "s", "e", " ", "t", "h", "e", " ", "O", "S", "L", "O", " ", "o", "n", "e">>,
         <<"O", "S", "L", "O">>, [location |-> <<"O", "S", "L", "O">>]),
       U(<<"m", "a", "k", "e", " ", "b", "i", "t", "c", "o", "i", "n", " ", "c", "r", "y", "p", "t", "o", " ", "b", "i", "g", "g", "e", "r">>,
         <<"b", "i", "t", "c", "o", "i", "n", " ", "c", "r", "y", "p", "t", "o">>,
         [size |-> "large"]),
       U(<<"r", "e", "m", "o", "v", "e", " ", "b", "i", "t", "c", "o", "i", "n", " ", "i", "n", " ", "o", "s", "l", "o">>,
         <<"r", "e", "m", "o", "v", "e", " ", "b", "i", "t", "c", "o", "i", "n">>,
         [coin |-> <<"b", "i", "t", "c", "o", "i", "n">>, location |-> <<"O", "s", "l", "o">>]),
       U(<<"r", "e", "m", "o", "v", "e", " ", "t", "h", "e", " ", "c", "l", "o", "c", "k">>,
         <<"c", "l", "o", "c", "k">>, EmptyObject) }

\* the action is the one the first word of the utterance stands for
TargetIntents ==
  { [action |-> IF u.raw[1] = "m" THEN "modify" ELSE "remove",
     subject |-> u.subject, parameters |-> u.parameters,
     raw |-> u.raw, targetWidgetId |-> Null] : u \in Utterances }

TargetInit == RouterInit /\ aiGenerator

\* Date.now() answers the same millisecond throughout
TargetNext ==
  \/ \E d \in TargetDescriptors :
       /\ nextWidgetId <= MaxTargets
       /\ AddWidget(d, now)
       /\ UNCHANGED <<orchestratorVars, sideVars>>
  \/ \E intent \in TargetIntents :
       /\ intent.action = "modify"
       /\ HandleModify(intent, now)
       /\ UNCHANGED sideVars
  \/ \E intent \in TargetIntents :
       /\ intent.action = "remove"
       /\ HandleRemove(intent)
       /\ UNCHANGED sideVars
  \/ \E h \in BagToSet(liveIntervals), m \in RefreshMatchVectors :
       TimerTick(h, m) /\ UNCHANGED <<orchestratorVars, sideVars>>
  \/ \E c \in BagToSet(calls) : \E o \in SettleOutcomes(c) :
       /\ o.kind = "error"
       /\ RefreshSettle(c, o, now)
       /\ UNCHANGED <<orchestratorVars, sideVars>>

TargetSpec == TargetInit /\ [][TargetNext]_vars

\* ===================================================================
\* Intent Parser
\* ===================================================================

\* A text is the sequence of its lexemes: each maximal run of word
\* characters (\w) is one lexeme, every other character is a lexeme of its
\* own. A word boundary (\b) is then an end of a word lexeme, and a literal
\* word between two boundaries matches a lexeme as a whole.
MaxWords == 2
Vocabulary ==
  {"Track", "the", "today", "it", "in", "Denver", "bitcoin", "bigger", "make",
   "sunset", "clear", "hideout", "news"}
Punctuation == {" ", "'", ",", ".", "-", "%"}

\* String.prototype.toLowerCase and titleCase (lines 1067-1069) on the
\* words of the vocabulary: the word with a capital first letter of every
\* lower-case word
Capitalised ==
  [track |-> "Track", the |-> "The", today |-> "Today", it |-> "It",
   in |-> "In", denver |-> "Denver", bitcoin |-> "Bitcoin",
   bigger |-> "Bigger", make |-> "Make", sunset |-> "Sunset",
   clear |-> "Clear",
   hideout |-> "Hideout", news |-> "News"]
\* the number of characters of each lower-case word
WordLength ==
  [track |-> 5, the |-> 3, today |-> 5, it |-> 2, in |-> 2, denver |-> 6,
   bitcoin |-> 7, bigger |-> 6, make |-> 4, sunset |-> 6, clear |-> 5,
   hideout |-> 7, news |-> 4]
\* the characters of each lower-case word
Spelling ==
  [track |-> <<"t", "r", "a", "c", "k">>,
   the |-> <<"t", "h", "e">>,
   today |-> <<"t", "o", "d", "a", "y">>,
   it |-> <<"i", "t">>,
   in |-> <<"i", "n">>,
   denver |-> <<"d", "e", "n", "v", "e", "r">>,
   bitcoin |-> <<"b", "i", "t", "c", "o", "i", "n">>,
   bigger |-> <<"b", "i", "g", "g", "e", "r">>,
   make |-> <<"m", "a", "k", "e">>,
   sunset |-> <<"s", "u", "n", "s", "e", "t">>,
   clear |-> <<"c", "l", "e", "a", "r">>,
   hideout |-> <<"h", "i", "d", "e", "o", "u", "t">>,
   news |-> <<"n", "e", "w", "s">>]

LowerCaseWord(w) ==
  IF \E l \in DOMAIN Capitalised : Capitalised[l] = w
  THEN CHOOSE l \in DOMAIN Capitalised : Capitalised[l] = w
  ELSE w
toLowerCaseText(s) == [i \in DOMAIN s |-> LowerCaseWord(s[i])]
titleCase(s) ==
  [i \in DOMAIN s |->
     IF s[i] \in DOMAIN Capitalised THEN Capitalised[s[i]] ELSE s[i]]

IsWord(x) == x \notin Punctuation
\* [a-z]+ : the words of the vocabulary are made of letters only
Alphabetic(x) == x \in DOMAIN Capitalised
RECURSIVE Length(_)
Length(s) ==
  IF s = <<>> THEN 0
  ELSE (IF Head(s) \in DOMAIN WordLength THEN WordLength[Head(s)] ELSE 1)
       + Length(Tail(s))

\* the number of white-space lexemes of s from position i on
RECURSIVE SpaceRun(_, _)
SpaceRun(s, i) ==
  IF i <= Len(s) /\ s[i] = " " THEN 1 + SpaceRun(s, i + 1) ELSE 0

\* String.prototype.trim
RECURSIVE TrimEnd(_)
TrimEnd(s) ==
  IF s # <<>> /\ s[Len(s)] = " " THEN TrimEnd(SubSeq(s, 1, Len(s) - 1)) ELSE s
trim(s) == TrimEnd(SubSeq(s, 1 + SpaceRun(s, 1), Len(s)))

\* The regular expressions of the parser, as priority-ordered alternatives of
\* element sequences: a lexeme out of a set, \s+, \s*, two or more white
\* spaces, \w+, ^, $, and a boundary before a word that follows.
Lit(ws) == [t |-> "lit", of |-> ws]
Sp1 == [t |-> "s+"]
Sp0 == [t |-> "s*"]
Sp2 == [t |-> "s{2,}"]
AnyWord == [t |-> "w+"]
AtStart == [t |-> "^"]
AtEnd == [t |-> "$"]
BeforeWord == [t |-> "b"]

\* the position behind the match of the element sequence p at position i of
\* s, 0 when p does not match there; a run of white space is followed by a
\* word, a boundary or the end in every pattern, so it is taken whole
RECURSIVE MatchEnd(_, _, _)
MatchEnd(p, s, i) ==
  IF p = <<>> THEN i
  ELSE LET e == Head(p)
           n == SpaceRun(s, i)
       IN IF e.t = "lit"
          THEN IF i <= Len(s) /\ s[i] \in e.of
               THEN MatchEnd(Tail(p), s, i + 1) ELSE 0
          ELSE IF e.t = "w+"
          THEN IF i <= Len(s) /\ IsWord(s[i])
               THEN MatchEnd(Tail(p), s, i + 1) ELSE 0
          ELSE IF e.t = "s+"
          THEN IF n >= 1 THEN MatchEnd(Tail(p), s, i + n) ELSE 0
          ELSE IF e.t = "s{2,}"
          THEN IF n >= 2 THEN MatchEnd(Tail(p), s, i + n) ELSE 0
          ELSE IF e.t = "s*"
          THEN MatchEnd(Tail(p), s, i + n)
          ELSE IF e.t = "^"
          THEN IF i = 1 THEN MatchEnd(Tail(p), s, i) ELSE 0
          ELSE IF e.t = "$"
          THEN IF i = Len(s) + 1 THEN MatchEnd(Tail(p), s, i) ELSE 0
          ELSE IF i <= Len(s) /\ IsWord(s[i])
               THEN MatchEnd(Tail(p), s, i) ELSE 0

\* the first alternative of re that matches at position i
RECURSIVE FirstAlternative(_, _, _)
FirstAlternative(re, s, i) ==
  IF re = <<>> THEN 0
  ELSE LET j == MatchEnd(Head(re), s, i) IN
       IF j > 0 THEN j ELSE FirstAlternative(Tail(re), s, i)

\* the leftmost match of re in s from position i on: [at, end), or at = 0
RECURSIVE MatchFrom(_, _, _)
MatchFrom(re, s, i) ==
  IF i > Len(s) + 1 THEN [at |-> 0, end |-> 0]
  ELSE LET j == FirstAlternative(re, s, i) IN
       IF j > 0 THEN [at |-> i, end |-> j] ELSE MatchFrom(re, s, i + 1)

test(re, s) == MatchFrom(re, s, 1).at > 0

\* s.replace(re, '') of a pattern without the g flag
replace(re, s) ==
  LET m == MatchFrom(re, s, 1) IN
  IF m.at = 0 THEN s
  ELSE SubSeq(s, 1, m.at - 1) \o SubSeq(s, m.end, Len(s))

\* s.replace(/\s{2,}/g, ' ')
RECURSIVE CollapseSpaces(_)
CollapseSpaces(s) ==
  IF s = <<>> THEN <<>>
  ELSE IF Head(s) = " "
       THEN <<" ">> \o CollapseSpaces(SubSeq(s, 1 + SpaceRun(s, 1), Len(s)))
       ELSE <<Head(s)>> \o CollapseSpaces(Tail(s))

PERIOD_MAP ==
  << [pattern |-> << <<Lit({"24h", "24hour", "24hours"})>>,
                     <<Lit({"24"}), Sp1, Lit({"h", "hour", "hours"})>>,
                     <<Lit({"today"})>>,
                     <<Lit({"last"}), Sp1, Lit({"day"})>> >>,
      value |-> "24h"],
     [pattern |-> << <<Lit({"7d", "7day", "7days"})>>,
                     <<Lit({"7"}), Sp1, Lit({"d", "day", "days"})>>,
                     <<Lit({"week", "weekly"})>>,
                     <<Lit({"past"}), Sp1, Lit({"week"})>> >>,
      value |-> "7d"],
     [pattern |-> << <<Lit({"30d", "30day", "30days"})>>,
                     <<Lit({"30"}), Sp1, Lit({"d", "day", "days"})>>,
                     <<Lit({"month", "monthly"})>>,
                     <<Lit({"past"}), Sp1, Lit({"month"})>> >>,
      value |-> "30d"],
     [pattern |-> << <<Lit({"1"}), Sp1, Lit({"year", "yearly"})>>,
                     <<Lit({"year", "yearly"})>>,
                     <<Lit({"365d"})>>,
                     <<Lit({"365"}), Sp1, Lit({"d"})>>,
                     <<Lit({"annual"})>> >>,
      value |-> "1y"] >>

\* in the first pattern "full" takes the white space behind it when a word
\* follows: \s* is greedy and the closing \b holds before that word
SIZE_MAP ==
  << [pattern |-> << <<Lit({"big", "bigger", "large", "larger", "expand",
                            "expanded", "fullwidth", "fullsize"})>>,
                     <<Lit({"full"}), Sp1, Lit({"width", "size"})>>,
                     <<Lit({"full"}), Sp1, BeforeWord>>,
                     <<Lit({"full"})>> >>,
      value |-> "large"],
     [pattern |-> << <<Lit({"small", "smaller", "compact", "shrink", "tiny",
                            "minimize"})>> >>,
      value |-> "small"],
     [pattern |-> << <<Lit({"medium"})>> >>,
      value |-> "medium"] >>

\* /^(usd|eur|gbp|jpy|cad|aud)\b/, /^(the last|the past|a|an|detail|full|more)\b/,
\* /^(real\s*time|real-time|live)\b/, /^(dollars|euros|percent|%)/; the last
\* one has no closing \b, and no word of the vocabulary begins with one of
\* its words
NON_LOCATION_SUFFIXES ==
  << << <<AtStart, Lit({"usd", "eur", "gbp", "jpy", "cad", "aud"})>> >>,
     << <<AtStart, Lit({"the"}), Lit({" "}), Lit({"last", "past"})>>,
        <<AtStart, Lit({"a", "an", "detail", "full", "more"})>> >>,
     << <<AtStart, Lit({"realtime", "live"})>>,
        <<AtStart, Lit({"real"}), Sp1, Lit({"time"})>>,
        <<AtStart, Lit({"real"}), Lit({"-"}), Lit({"time"})>> >>,
     << <<AtStart, Lit({"dollars", "euros", "percent", "%"})>> >> >>

\* what may follow the captured words in the three patterns of
\* extractLocation, lines 995-1002
LocationTails ==
  << << <<Sp0, AtEnd>> >>,
     << <<Sp1, Lit({"right"}), Lit({" "}), Lit({"now"}), Sp0, AtEnd>>,
        <<Sp1, Lit({"today", "tomorrow", "please"}), Sp0, AtEnd>>,
        <<Sp1, Lit({"this"}), Lit({" "}), Lit({"week"}), Sp0, AtEnd>>,
        <<Sp1, Lit({"for"}), Lit({" "}), Lit({"me"}), Sp0, AtEnd>> >>,
     << <<Sp1, Lit({"like"}), Sp0, AtEnd>> >> >>

\* ([a-z][a-z\s,.']+?) from position b on: the shortest capture of two or
\* more characters that `tail` can follow; the position behind it, or 0
RECURSIVE CaptureEnd(_, _, _, _)
CaptureEnd(s, b, e, tail) ==
  IF e > Len(s) \/ ~(Alphabetic(s[e]) \/ s[e] \in {" ", ",", ".", "'"})
  THEN 0
  ELSE IF /\ Length(SubSeq(s, b, e)) >= 2
          /\ FirstAlternative(tail, s, e + 1) > 0
       THEN e + 1
       ELSE CaptureEnd(s, b, e + 1, tail)

\* lower.match(/\bin\s+([a-z][a-z\s,.']+?)<tail>/i)[1] for the leftmost "in"
\* it matches at, from position i on; <<>> when there is no match
RECURSIVE LocationCapture(_, _, _)
LocationCapture(s, i, tail) ==
  IF i > Len(s) THEN <<>>
  ELSE LET b == i + 1 + SpaceRun(s, i + 1)
           e == IF s[i] = "in" /\ b > i + 1 /\ b <= Len(s) /\ Alphabetic(s[b])
                THEN CaptureEnd(s, b, b, tail) ELSE 0
       IN IF e > 0 THEN SubSeq(s, b, e - 1)
          ELSE LocationCapture(s, i + 1, tail)

\* extractLocation, lines 992-1017: the title-cased location, <<>> for null
RECURSIVE LocationFrom(_, _)
LocationFrom(lower, k) ==
  IF k > Len(LocationTails) THEN <<>>
  ELSE LET candidate == trim(LocationCapture(lower, 1, LocationTails[k])) IN
       IF \/ candidate = <<>>
          \/ \E n \in DOMAIN NON_LOCATION_SUFFIXES :
               test(NON_LOCATION_SUFFIXES[n], candidate)
          \/ Length(candidate) < 2
       THEN LocationFrom(lower, k + 1)
       ELSE titleCase(candidate)

extractLocation(lower) == LocationFrom(lower, 1)

\* the characters of a text
RECURSIVE Chars(_)
Chars(s) ==
  IF s = <<>> THEN <<>>
  ELSE (IF Head(s) \in DOMAIN Spelling THEN Spelling[Head(s)] ELSE <<Head(s)>>)
       \o Chars(Tail(s))

\* String.prototype.startsWith
startsWith(chars, word) ==
  Len(word) <= Len(chars) /\ SubSeq(chars, 1, Len(word)) = word

REMOVE_WORDS ==
  << <<"r", "e", "m", "o", "v", "e">>,
     <<"d", "e", "l", "e", "t", "e">>,
     <<"c", "l", "o", "s", "e">>,
     <<"d", "i", "s", "m", "i", "s", "s">>,
     <<"h", "i", "d", "e">>,
     <<"g", "e", "t", " ", "r", "i", "d", " ", "o", "f">>,
     <<"c", "l", "e", "a", "r">> >>
MODIFY_WORDS ==
  << <<"c", "h", "a", "n", "g", "e">>,
     <<"m", "a", "k", "e">>,
     <<"u", "p", "d", "a", "t", "e">>,
     <<"s", "w", "i", "t", "c", "h">>,
     <<"m", "o", "d", "i", "f", "y">>,
     <<"r", "e", "s", "i", "z", "e">>,
     <<"c", "o", "n", "v", "e", "r", "t">>,
     <<"s", "e", "t">> >>

\* /\b(that|it|this|the\s+\w+\s+one|the\s+\w+\s+widget)\b/
Reference ==
  << <<Lit({"that", "it", "this"})>>,
     <<Lit({"the"}), Sp1, AnyWord, Sp1, Lit({"one"})>>,
     <<Lit({"the"}), Sp1, AnyWord, Sp1, Lit({"widget"})>> >>

\* hasReference, lines 936-938
hasReference(text) == test(Reference, text)

\* /\bas\s+a?\s*(chart|table|card|line|bar)\b/
AsFormat ==
  << <<Lit({"as"}), Sp1, Lit({"a"}), Sp1,
       Lit({"chart", "table", "card", "line", "bar"})>>,
     <<Lit({"as"}), Sp1,
       Lit({"achart", "atable", "acard", "aline", "abar",
            "chart", "table", "card", "line", "bar"})>> >>

\* /\bshow\b.*\bas\s+a?\s*(chart|table|card|line|bar)\b/i.test(lower)
ShowAs(lower) ==
  \E i \in DOMAIN lower :
    lower[i] = "show" /\ MatchFrom(AsFormat, lower, i + 1).at > 0

\* detectAction, lines 920-933
detectAction(lower) ==
  LET chars == Chars(lower)
      some(words, P(_)) == \E k \in DOMAIN words : P(words[k])
  IN IF /\ hasReference(lower)
        /\ some(MODIFY_WORDS, LAMBDA w : includes(chars, w))
     THEN "modify"
     ELSE IF ShowAs(lower) /\ hasReference(lower)
     THEN "modify"
     ELSE IF some(REMOVE_WORDS,
                  LAMBDA word : \/ startsWith(chars, word)
                                \/ includes(chars, <<" ">> \o word \o <<" ">>))
     THEN "remove"
     ELSE IF /\ some(MODIFY_WORDS, LAMBDA w : startsWith(chars, w))
             /\ hasReference(lower)
     THEN "modify"
     ELSE "create"

COINS ==
  [bitcoin |-> "btc", ethereum |-> "eth", solana |-> "sol", cardano |-> "ada",
   dogecoin |-> "doge", polkadot |-> "dot", ripple |-> "xrp",
   litecoin |-> "ltc", chainlink |-> "link", avalanche |-> "avax",
   polygon |-> "matic", uniswap |-> "uni", stellar |-> "xlm",
   cosmos |-> "atom", monero |-> "xmr", tezos |-> "xtz", algorand |-> "algo",
   near |-> "near", aptos |-> "apt", arbitrum |-> "arb", optimism |-> "op",
   tron |-> "trx", shiba |-> "shib", pepe |-> "pepe", bonk |-> "bonk",
   sui |-> "sui", sei |-> "sei"]
\* String.prototype.toUpperCase on the symbols
UpperCaseSymbol ==
  [btc |-> "BTC", eth |-> "ETH", sol |-> "SOL", ada |-> "ADA",
   doge |-> "DOGE", dot |-> "DOT", xrp |-> "XRP", ltc |-> "LTC",
   link |-> "LINK", avax |-> "AVAX", matic |-> "MATIC", uni |-> "UNI",
   xlm |-> "XLM", atom |-> "ATOM", xmr |-> "XMR", xtz |-> "XTZ",
   algo |-> "ALGO", near |-> "NEAR", apt |-> "APT", arb |-> "ARB",
   op |-> "OP", trx |-> "TRX", shib |-> "SHIB", pepe |-> "PEPE",
   bonk |-> "BONK", sui |-> "SUI", sei |-> "SEI"]

\* findCoin, lines 982-990: the first token that is the name or the symbol
\* of a coin; the words of the vocabulary hold no character that
\* split(/[^a-z0-9]+/) splits at
RECURSIVE findCoin(_)
findCoin(lower) ==
  IF lower = <<>> THEN EmptyObject
  ELSE LET token == Head(lower) IN
       IF token \in DOMAIN COINS
       THEN [name |-> token, symbol |-> COINS[token]]
       ELSE IF \E n \in DOMAIN COINS : COINS[n] = token
       THEN [name |-> CHOOSE n \in DOMAIN COINS : COINS[n] = token,
             symbol |-> token]
       ELSE findCoin(Tail(lower))

FORMAT_MAP ==
  << [pattern |-> << <<Lit({"line"}), Sp1, Lit({"chart"})>> >>,
      value |-> "chart"],
     [pattern |-> << <<Lit({"bar"}), Sp1, Lit({"chart"})>> >>,
      value |-> "chart"],
     [pattern |-> << <<Lit({"chart"})>> >>, value |-> "chart"],
     [pattern |-> << <<Lit({"table"})>> >>, value |-> "table"],
     [pattern |-> << <<Lit({"card"})>> >>, value |-> "card"] >>

\* for (const { pattern, value } of map) if (pattern.test(lower)) ...; break:
\* the value of the first pattern found in the text, "" when there is none
RECURSIVE FirstValue(_, _)
FirstValue(map, lower) ==
  IF map = <<>> THEN ""
  ELSE IF test(Head(map).pattern, lower) THEN Head(map).value
       ELSE FirstValue(Tail(map), lower)

\* parseInt(_, 10) of the numerals \d+ that texts hold
Numerals == ("5" :> 5) @@ ("10" :> 10)

\* lower.match(/\b(?:top|last|first)\s+(\d+)\b/)
CountPhrase ==
  << <<Lit({"top", "last", "first"}), Sp1, Lit(DOMAIN Numerals)>> >>

\* extractParameters, lines 942-980
extractParameters(lower) ==
  LET coinMatch == findCoin(lower)
      locationMatch == extractLocation(lower)
      period == FirstValue(PERIOD_MAP, lower)
      displayFormat == FirstValue(FORMAT_MAP, lower)
      size == FirstValue(SIZE_MAP, lower)
      countMatch == MatchFrom(CountPhrase, lower, 1)
      keys == (IF coinMatch # EmptyObject THEN {"coin", "symbol"} ELSE {})
              \cup (IF locationMatch # <<>> THEN {"location"} ELSE {})
              \cup (IF period # "" THEN {"period"} ELSE {})
              \cup (IF displayFormat # "" THEN {"displayFormat"} ELSE {})
              \cup (IF size # "" THEN {"size"} ELSE {})
              \cup (IF countMatch.at > 0 THEN {"count"} ELSE {})
  IN [k \in keys |->
        IF k = "coin" THEN coinMatch.name
        ELSE IF k = "symbol" THEN UpperCaseSymbol[coinMatch.symbol]
        ELSE IF k = "location" THEN locationMatch
        ELSE IF k = "period" THEN period
        ELSE IF k = "displayFormat" THEN displayFormat
        ELSE IF k = "size" THEN size
        ELSE Numerals[lower[countMatch.end - 1]]]

\* new RegExp(`\\bin\\s+${escapeRegex(params.location)}`, 'i'): "in", white
\* space and the location's lexemes in either case; no word of the
\* vocabulary begins with another, so the last lexeme matches as a whole
LocationPhrase(location) ==
  << <<Lit({"in"}), Sp1>>
     \o [i \in DOMAIN location |-> Lit({LowerCaseWord(location[i])})] >>

RECURSIVE StripEach(_, _)
StripEach(map, s) ==
  IF map = <<>> THEN s
  ELSE StripEach(Tail(map), replace(Head(map).pattern, s))

LeadingFiller ==
  << <<AtStart, Lit({"show"}), Sp1, Lit({"me"}), Sp1>>,
     <<AtStart, Lit({"display"}), Sp1>>,
     <<AtStart, Lit({"give"}), Sp1, Lit({"me"}), Sp1>>,
     <<AtStart, Lit({"what"}), Lit({"'"}), Lit({"s"}), Sp1>>,
     <<AtStart, Lit({"whats"}), Sp1>>,
     <<AtStart, Lit({"what"}), Sp1, Lit({"is", "are"}), Sp1>>,
     <<AtStart, Lit({"what"}), Sp1>>,
     <<AtStart, Lit({"track", "monitor", "add", "create"}), Sp1>>,
     <<AtStart, Lit({"i"}), Sp1, Lit({"want"}), Sp1>>,
     <<AtStart, Lit({"let"}), Sp1, Lit({"me"}), Sp1, Lit({"see"}), Sp1>>,
     <<AtStart, Lit({"pull"}), Sp1, Lit({"up"}), Sp1>>,
     <<AtStart, Lit({"get"}), Sp1>>,
     <<AtStart, Lit({"tell"}), Sp1, Lit({"me"}), Sp1>>,
     <<AtStart, Lit({"can"}), Sp1, Lit({"you", "i"}), Sp1,
       Lit({"see", "get", "have"}), Sp1>>,
     <<AtStart, Lit({"can"}), Sp1, Lit({"you", "i"}), Sp2>>,
     <<AtStart, Lit({"please"}), Sp1>> >>
Articles == << <<AtStart, Lit({"the", "a", "an", "some", "my"}), Sp1>> >>
AsChart ==
  << <<Lit({"as"}), Sp1, Lit({"a"}), Sp1, Lit({"line"}), Sp1, Lit({"chart"})>>,
     <<Lit({"as"}), Sp1, Lit({"aline"}), Sp1, Lit({"chart"})>>,
     <<Lit({"as"}), Sp1, Lit({"a"}), Sp1, Lit({"chart"})>>,
     <<Lit({"as"}), Sp1, Lit({"achart"})>>,
     <<Lit({"as"}), Sp1, Lit({"line"}), Sp1, Lit({"chart"})>>,
     <<Lit({"as"}), Sp1, Lit({"chart"})>> >>
AsTable ==
  << <<Lit({"as"}), Sp1, Lit({"a"}), Sp1, Lit({"table"})>>,
     <<Lit({"as"}), Sp1, Lit({"atable", "table"})>> >>
AsCard ==
  << <<Lit({"as"}), Sp1, Lit({"a"}), Sp1, Lit({"card"})>>,
     <<Lit({"as"}), Sp1, Lit({"acard", "card"})>> >>
TrailingFiller ==
  << <<Sp1, Lit({"right"}), Lit({" "}), Lit({"now"}), Sp0, AtEnd>>,
     <<Sp1, Lit({"please"}), Sp0, AtEnd>>,
     <<Sp1, Lit({"for"}), Lit({" "}), Lit({"me"}), Sp0, AtEnd>>,
     <<Sp1, Lit({"currently", "like", "today", "tomorrow"}), Sp0, AtEnd>>,
     <<Sp1, Lit({"this"}), Lit({" "}), Lit({"week"}), Sp0, AtEnd>> >>
FallbackFiller ==
  << <<AtStart, Lit({"show"}), Sp1, Lit({"me"}), Sp1>>,
     <<AtStart, Lit({"what"}), Lit({"'"}), Lit({"s"}), Sp1>>,
     <<AtStart, Lit({"track"}), Sp1>> >>

\* a || b for strings: the empty string is falsy
OrElse(a, b) == IF a # <<>> THEN a ELSE b

\* extractSubject, line 1062: what stands behind `s ||`
fallbackSubject(lower) == OrElse(trim(replace(FallbackFiller, lower)), lower)

\* extractSubject, lines 1021-1063
extractSubject(lower, params) ==
  LET s1 == replace(Articles, replace(LeadingFiller, lower))
      s2 == IF "location" \in DOMAIN params
            THEN replace(LocationPhrase(params.location), s1) ELSE s1
      s3 == StripEach(PERIOD_MAP, s2)
      s4 == replace(AsCard, replace(AsTable, replace(AsChart, s3)))
      s5 == StripEach(SIZE_MAP, s4)
      s6 == replace(Reference, replace(TrailingFiller, s5))
      s == trim(CollapseSpaces(s6))
  IN OrElse(s, fallbackSubject(lower))

\* parse, lines 907-916
parse(text) ==
  LET lower == toLowerCaseText(trim(text))
      parameters == extractParameters(lower)
  IN [action |-> detectAction(lower),
      subject |-> extractSubject(lower, parameters),
      parameters |-> parameters, raw |-> text, targetWidgetId |-> Null]

\* the texts of up to MaxWords words of the vocabulary with one space between
\* them, and the same between two spaces: the empty text and the text of
\* white space alone are among them
RECURSIVE WordSequences(_)
WordSequences(n) ==
  IF n = 0 THEN {<<>>}
  ELSE WordSequences(n - 1)
       \cup { ws \o <<" ", w>> : ws \in WordSequences(n - 1) \ {<<>>},
                                 w \in Vocabulary }
       \cup { <<w>> : w \in Vocabulary }
Texts ==
  WordSequences(MaxWords)
  \cup { <<" ">> \o ws \o <<" ">> : ws \in WordSequences(MaxWords) }

\* a text the user has submitted and parse has not been given yet
Submitted(text) == [raw |-> text]

\* the orchestrator's handler of user:message hands the submitted text to
\* parse
Parse ==
  /\ DOMAIN parsed = {"raw"}
  /\ parsed # NotParsed
  /\ parsed' = parse(parsed.raw)
  /\ UNCHANGED <<routerVars, runtimeVars, orchestratorVars, persistenceVars,
                 shellVars, overlapVars>>

ParserInit ==
  /\ ComponentsInit
  /\ aiGenerator
  /\ persisted = <<>>
  /\ parsed \in {Submitted(text) : text \in Texts}

ParserNext == Parse

ParserSpec == ParserInit /\ [][ParserNext]_vars

\* ===================================================================
\* Chat Shell (src/src/chat-shell.js) and the orchestrator's handlers of
\* what it emits (src/src/main.js lines 77-155)
\* ===================================================================

\* MaxEmits bounds the events the shell emits
MaxEmits == 3

\* what the user types: a word, with or without white space around it, or
\* white space alone; word(text) is the string a text of one word holds
ShellTexts == {<<" ">>, <<"Denver">>, <<" ", "bitcoin", " ">>}
word(text) == text[1]

\* dataset.value of the chips rendered for a request: the values of
\* req.options
OptionValues == {"Denver", "Oslo"}

\* pendingClarification = null
NoClarification == [requested |-> FALSE]
NoEvent == [event |-> "none"]

\* the shell's last step: the text submitted or the request id of the chip
\* clicked, the number of events emitted so far and the event emitted
ShellStep(step, seq, emitted) ==
  [k \in DOMAIN step \cup {"seq", "emitted"} |->
     IF k = "seq" THEN seq ELSE IF k = "emitted" THEN emitted ELSE step[k]]
Submit(text) == [op |-> "submit", text |-> text, chip |-> 0]
Click(chip) == [op |-> "click", text |-> <<>>, chip |-> chip]

\* what the awaited router call returned at once, if it did
Returned == IF rlast'.done THEN rlast'.result ELSE NoResult

\* bus.emit('clarification:resolved', {requestId, answer}) and the
\* orchestrator's handler up to its await, main.js lines 101-103
emitResolved(step, requestId, answer) ==
  /\ emits < MaxEmits
  /\ emits' = emits + 1
  /\ slast' = ShellStep(step, emits + 1,
                        [event |-> "clarification:resolved",
                         requestId |-> requestId, answer |-> answer])
  /\ Resume(requestId, answer)
  /\ returned' = Returned

submitInputKeepsPending(text, m) ==
  LET trimmed == trim(text) IN
  /\ returned = NoResult
  /\ IF trimmed = <<>>
     THEN /\ slast' = ShellStep(Submit(text), emits, NoEvent)
          /\ UNCHANGED <<pendingClarification, chips, emits, returned,
                         routerVars, runtimeVars>>
     ELSE IF pendingClarification # NoClarification
     THEN /\ emitResolved(Submit(text), pendingClarification.requestId,
                          word(trimmed))
          /\ UNCHANGED <<pendingClarification, chips>>
     ELSE /\ emits < MaxEmits
          /\ emits' = emits + 1
          /\ slast' = ShellStep(Submit(text), emits + 1,
                                [event |-> "user:message",
                                 text |-> word(trimmed)])
          /\ parse(trimmed).action = "create"
          /\ Route(Intent("create"), m)
          /\ returned' = Returned
          /\ UNCHANGED <<pendingClarification, chips>>

\* submitInput, lines 141-158; a user:message asks for a widget, and the
\* orchestrator's handler runs up to the await of handleCreate (main.js
\* lines 77-83, 119-125); m is what each source's match() does
submitInput(text, m) ==
  LET trimmed == trim(text) IN
  /\ returned = NoResult
  /\ IF trimmed = <<>>
     THEN /\ slast' = ShellStep(Submit(text), emits, NoEvent)
          /\ UNCHANGED <<pendingClarification, chips, emits, returned,
                         routerVars, runtimeVars>>
     ELSE IF pendingClarification # NoClarification
     THEN /\ emitResolved(Submit(text), pendingClarification.requestId,
                          word(trimmed))
          /\ pendingClarification' = NoClarification
          /\ UNCHANGED chips
     ELSE /\ emits < MaxEmits
          /\ emits' = emits + 1
          /\ slast' = ShellStep(Submit(text), emits + 1,
                                [event |-> "user:message",
                                 text |-> word(trimmed)])
          /\ parse(trimmed).action = "create"
          /\ Route(Intent("create"), m)
          /\ returned' = Returned
          /\ UNCHANGED <<pendingClarification, chips>>

\* the click handler, lines 109-130, for a click on a chip of the i-th
\* clarification rendered; a disabled button receives no click
chipClick(i, value) ==
  /\ returned = NoResult
  /\ i \in DOMAIN chips
  /\ ~chips[i].disabled
  /\ IF pendingClarification = NoClarification
     THEN /\ slast' = ShellStep(Click(chips[i].requestId), emits, NoEvent)
          /\ UNCHANGED <<pendingClarification, chips, emits, returned,
                         routerVars, runtimeVars>>
     ELSE /\ chips' = [chips EXCEPT ![i].disabled = TRUE]
          /\ emitResolved(Click(chips[i].requestId),
                          pendingClarification.requestId, value)
          /\ pendingClarification' = NoClarification

\* the provider call the orchestrator awaits settles, and the router
\* returns its result
RouterReturns(c, outcome) ==
  /\ returned = NoResult
  /\ Settle(c, outcome)
  /\ returned' = rlast'.result
  /\ UNCHANGED <<pendingClarification, chips, emits, slast>>

\* handleRouteResult, main.js lines 129-155, run when the await ends, and
\* the shell's listeners of system:message and clarification:pending,
\* lines 93-105
handleRouteResult ==
  /\ returned # NoResult
  /\ returned' = NoResult
  /\ slast' = ShellStep([op |-> "result", text |-> <<>>, chip |-> 0], emits,
                        NoEvent)
  /\ UNCHANGED emits
  /\ IF returned.kind = "success"
     THEN /\ AddWidget(returned.descriptor, now)
          /\ UNCHANGED <<pendingClarification, chips>>
     ELSE IF returned.kind = "clarification"
     THEN /\ pendingClarification' = returned.request
          /\ chips' = Append(chips, [requestId |-> returned.request.requestId,
                                     disabled |-> FALSE])
          /\ UNCHANGED <<routerVars, runtimeVars>>
     ELSE UNCHANGED <<pendingClarification, chips, routerVars, runtimeVars>>

\* the outcomes of a provider call the shell can tell apart
ShellOutcomes ==
  {o \in ProviderOutcomes :
     o.kind = "clarification" => "context" \notin DOMAIN o.request}

ShellNext ==
  \/ \E text \in ShellTexts, m \in RefreshMatchVectors :
       /\ submitInput(text, m)
       /\ UNCHANGED <<orchestratorVars, parserVars, persistenceVars,
                     overlapVars>>
  \/ \E i \in DOMAIN chips, value \in OptionValues :
       /\ chipClick(i, value)
       /\ UNCHANGED <<orchestratorVars, parserVars, persistenceVars,
                     overlapVars>>
  \/ \E c \in BagToSet(calls) : \E outcome \in ShellOutcomes :
       /\ RouterReturns(c, outcome)
       /\ UNCHANGED <<orchestratorVars, parserVars, persistenceVars,
                     overlapVars>>
  \/ /\ handleRouteResult
     /\ UNCHANGED <<orchestratorVars, parserVars, persistenceVars,
                     overlapVars>>

\* ===================================================================
\* Updates made while a refresh call is outstanding
\* ===================================================================

\* the partials a foreground caller passes to change what a widget shows
DisplayPartials ==
  { [title |-> "Renamed"], [size |-> "large"],
    [title |-> "Renamed", size |-> "large"] }

\* the later partial's keys over the earlier one's
Over(earlier, later) ==
  [k \in DOMAIN earlier \cup DOMAIN later |->
     IF k \in DOMAIN later THEN later[k] ELSE earlier[k]]

\* updateWidget, lines 160-179, by a foreground caller; `overlap` records
\* the keys set while the widget's refresh call is outstanding
UpdateDisplayed(id, partial, t) ==
  /\ UpdateWidget(id, partial, t)
  /\ overlap' =
       IF id \in refreshing /\ findIndex(widgets, id) # 0
       THEN [overlap EXCEPT !.during =
               With(@, id, Over(IF id \in DOMAIN @ THEN @[id] ELSE EmptyObject,
                                partial))]
       ELSE overlap

\* the refresh call c settles; `overlap` records what had been set during
\* the call
RefreshReturns(c, outcome, t) ==
  /\ RefreshSettle(c, outcome, t)
  /\ overlap' =
       [during |-> [id \in DOMAIN overlap.during \ {c.by} |->
                      overlap.during[id]],
        settled |-> [kind |-> last'.refreshed, id |-> c.by,
                     partial |-> IF c.by \in DOMAIN overlap.during
                                 THEN overlap.during[c.by] ELSE EmptyObject]]

OverlapNext ==
  \/ \E d \in {Descriptor(30)} :
       /\ nextWidgetId <= MaxWidgets
       /\ AddWidget(d, now)
       /\ UNCHANGED <<orchestratorVars, sideVars>>
  \/ \E h \in BagToSet(liveIntervals), m \in RefreshMatchVectors :
       TimerTick(h, m) /\ UNCHANGED <<orchestratorVars, sideVars>>
  \/ \E id \in WidgetIds, partial \in DisplayPartials :
       /\ UpdateDisplayed(id, partial, now)
       /\ UNCHANGED <<orchestratorVars, parserVars, persistenceVars, shellVars>>
  \/ \E c \in BagToSet(calls) : \E outcome \in SettleOutcomes(c) :
       /\ outcome.kind \in {"success", "error"}
       /\ RefreshReturns(c, outcome, now)
       /\ UNCHANGED <<orchestratorVars, parserVars, persistenceVars, shellVars>>

PersistenceInit == Init /\ aiGenerator /\ persisted = <<>>

PersistenceSpec == PersistenceInit /\ [][PersistenceNext]_vars

ShellInit == RouterInit /\ aiGenerator

ShellSpec == ShellInit /\ [][ShellNext]_vars

OverlapInit == RouterInit /\ aiGenerator

OverlapSpec == OverlapInit /\ [][OverlapNext]_vars

RouterNext ==
  \/ \E intent \in ForegroundIntents, m \in FewMatchVectors :
       /\ intent.action # "create" => m = NoMatch
       /\ Route(intent, m)
       /\ UNCHANGED <<orchestratorVars, sideVars>>
  \/ \E requestId \in IssuedIds \cup {UnknownId}, answer \in Answers :
       Resume(requestId, answer) /\ UNCHANGED <<orchestratorVars, sideVars>>
  \/ \E c \in BagToSet(calls) : \E o \in SettleOutcomes(c) :
       Settle(c, o) /\ UNCHANGED <<orchestratorVars, sideVars>>

RouterSpec == RouterInit /\ [][RouterNext]_vars

\* route's scoring and dispatch under every behaviour of match(); the
\* clarification life cycle is left to RouterSpec
DispatchNext ==
  \/ \E intent \in ForegroundIntents, m \in MatchVectors :
       /\ intent.action # "create" => m = NoMatch
       /\ Route(intent, m)
       /\ UNCHANGED <<orchestratorVars, sideVars>>
  \/ \E c \in BagToSet(calls) : \E o \in SettleOutcomes(c) :
       /\ o.kind # "clarification"
       /\ Settle(c, o)
       /\ UNCHANGED <<orchestratorVars, sideVars>>

DispatchSpec == RouterInit /\ [][DispatchNext]_vars

\* ===================================================================
\* Properties: Widget Lifecycle Manager (Spec)
\* ===================================================================

\* C1: for every widget id at most one router.route call made by refreshWidget
\* is outstanding at any time, and while a refresh of id is in flight no step
\* (a timer tick, boot's refresh pass) starts another route call for id.
C1_OneRefreshInFlight ==
  /\ [](\A id \in WidgetIds : OutstandingFor(calls, id) <= 1)
  /\ [][\A id \in refreshing :
          OutstandingFor(calls', id) <= OutstandingFor(calls, id)]_vars

\* an interval of a widget is live while that widget's refresh awaits its one
\* route call: the next tick meets the guard
C1_Witness ==
  \E h \in BagToSet(liveIntervals) :
    /\ h.id \in refreshing
    /\ OutstandingFor(calls, h.id) = 1

\* C2: when the route call of a refresh completes for a widget that
\* removeWidget took out of the collection meanwhile, the widget stays absent,
\* the collection is left as it was, and neither widgets:changed is emitted
\* nor save called, whatever the result of the call.
C2_RemovedDuringRefresh ==
  [][\A c \in BagToSet(calls) :
       (/\ c.by # 0
        /\ c.by \notin Ids(widgets)
        /\ calls' = calls (-) SetToBag({c}))
       => (/\ c.by \notin Ids(widgets')
           /\ widgets' = widgets
           /\ ~last'.emitted
           /\ ~last'.saved)]_vars

\* a refresh is in flight for a widget that was removed after it started
C2_Witness ==
  \E c \in BagToSet(calls) :
    /\ c.by # 0
    /\ c.by \in refreshing
    /\ c.by \notin Ids(widgets)
    /\ c.by < nextWidgetId

C4_RequestIdSingleUse ==
  /\ \A id \in IssuedIds :
       LET log == resumeLog[id] IN
       /\ log.reached <= 1
       /\ (log.reached >= 1 \/ log.expired) =>
            log.reached = 1 /\ id \notin DOMAIN pending
  /\ (/\ rlast.op = "resume"
      /\ rlast.step = "call"
      /\ rlast.reqId \in IssuedIds
      /\ resumeLog[rlast.reqId].expired)
     => (/\ rlast.done
         /\ rlast.to = "return"
         /\ rlast.result.kind = "error"
         /\ ~rlast.result.retryable)

\* a second resume with an id was answered while the re-resolution started by
\* the first is still awaited
C4_Witness ==
  \E id \in IssuedIds :
    /\ resumeLog[id].reached = 1
    /\ resumeLog[id].expired
    /\ \E c \in BagToSet(calls) : c.op = "resume" /\ c.reqId = id
    /\ rlast.op = "resume" /\ rlast.reqId = id /\ rlast.done

\* C5: every clarification result returned by route or
\* resumeAfterClarification, from a registered provider or from the fallback,
\* carries a request id that was not issued before, and when the call returns
\* the pending map holds under that id the provider, the intent and the
\* context of the clarification.
C5_ClarificationIsStored ==
  (rlast.done /\ rlast.result.kind = "clarification") =>
    /\ "requestId" \in DOMAIN rlast.result.request
    /\ rlast.result.request.requestId \notin rlast.issued
    /\ rlast.result.request.requestId \in DOMAIN pending
    /\ LET entry == pending[rlast.result.request.requestId] IN
       /\ entry.source = rlast.source
       /\ entry.intent = rlast.intent
       /\ entry.context = IF "context" \in DOMAIN rlast.result.request
                          THEN rlast.result.request.context ELSE EmptyObject

\* C6: every route call returns a success, a clarification or an error
\* result, whatever match(), resolve() and the fallback's generate() do,
\* raising included; it never rejects.
C6_RouteSettlesWithResult ==
  (rlast.op = "route" /\ rlast.done) =>
    /\ rlast.result.kind \in {"success", "clarification", "error"}
    /\ rlast.result.kind = "error" =>
         {"message", "retryable"} \subseteq DOMAIN rlast.result

\* a route call returned an error although the provider it awaited raised:
\* the only error a settled call returns with these messages
C6_Witness ==
  /\ rlast.op = "route"
  /\ rlast.step = "settle"
  /\ rlast.done
  /\ rlast.result \in {GeneratorFailed} \cup {SourceFailed(s) : s \in Sources}

\* C7: a routed create intent for which some provider scores at least 0.5
\* calls resolve on exactly one provider, the one with the highest score, and
\* among providers with equal highest score the one registered first.
C7_HighestConfidenceWins ==
  [][(/\ rlast'.op = "route"
      /\ rlast'.step = "call"
      /\ rlast'.intent.action = "create")
     => LET m == rlast'.scores
            q == {s \in Sources : m[s] # MatchThrows /\ m[s] >= CONFIDENCE_THRESHOLD}
        IN q # {} =>
             LET best == CHOOSE s \in q :
                           \A t \in q : m[t] < m[s] \/ (m[t] = m[s] /\ s <= t)
             IN /\ rlast'.to = "source"
                /\ rlast'.source = best
                /\ \E c \in BagToSet(calls') :
                     /\ c.to = "source" /\ c.source = best /\ c.by = 0
                     /\ calls' = calls (+) SetToBag({c})]_vars

\* two providers tie for the highest score and the earlier one was called
C7_Witness ==
  /\ rlast.op = "route"
  /\ rlast.step = "call"
  /\ rlast.to = "source"
  /\ \E s, t \in Sources :
       /\ s < t
       /\ rlast.scores[s] = rlast.scores[t]
       /\ rlast.scores[s] >= CONFIDENCE_THRESHOLD
       /\ \A u \in Sources : rlast.scores[u] <= rlast.scores[s]
       /\ rlast.source = s

\* C8: in a routed create intent the fallback is called only if no provider
\* scores at least 0.5, a configured fallback is called whenever none does, and
\* a call that goes to the fallback calls no provider's resolve.
C8_FallbackIffNoneQualifies ==
  [][(/\ rlast'.op = "route"
      /\ rlast'.step = "call"
      /\ rlast'.intent.action = "create")
     => LET m == rlast'.scores
            q == {s \in Sources : m[s] # MatchThrows /\ m[s] >= CONFIDENCE_THRESHOLD}
            called == calls' (-) calls
        IN /\ rlast'.to = "fallback" => q = {}
           /\ (q = {} /\ aiGenerator) => rlast'.to = "fallback"
           /\ rlast'.to = "fallback" =>
                /\ BagCardinality(called) = 1
                /\ \A c \in BagToSet(called) : c.to = "fallback" /\ c.source = 0
           /\ rlast'.to # "fallback" =>
                \A c \in BagToSet(called) : c.to # "fallback"]_vars

\* the fallback's generate() is awaited for an intent every provider scored
\* below the threshold, one of them just below
C8_Witness ==
  /\ rlast.op = "route"
  /\ rlast.step = "call"
  /\ rlast.to = "fallback"
  /\ \A s \in Sources : rlast.scores[s] < CONFIDENCE_THRESHOLD
  /\ \E c \in BagToSet(calls) : c.to = "fallback" /\ c.by = 0

\* C9: route with a modify or remove intent returns at once an error with
\* retryable false whose message names the action; no match(), no resolve()
\* and no generate() is called and the pending map is left unchanged.
C9_OnlyCreateIsRouted ==
  [][(/\ rlast'.op = "route"
      /\ rlast'.step = "call"
      /\ rlast'.intent.action \in {"modify", "remove"})
     => (/\ rlast'.done
         /\ rlast'.result.kind = "error"
         /\ ~rlast'.result.retryable
         /\ \E i \in DOMAIN rlast'.result.message :
              rlast'.result.message[i] = rlast'.intent.action
         /\ rlast'.matched = {}
         /\ rlast'.to = "return"
         /\ calls' = calls
         /\ pending' = pending
         /\ nextRequestId' = nextRequestId)]_vars

\* a remove intent was turned away while a clarification was pending and a
\* provider call outstanding
C9_Witness ==
  /\ rlast.op = "route"
  /\ rlast.intent.action = "remove"
  /\ rlast.done
  /\ DOMAIN pending # {}
  /\ calls # EmptyBag

\* C10: resumeAfterClarification with a request id that is not a key of the
\* pending map returns at once an error with retryable false, calls no
\* provider and leaves the pending map unchanged.
C10_UnknownRequestId ==
  [][(/\ rlast'.op = "resume"
      /\ rlast'.step = "call"
      /\ rlast'.reqId \notin DOMAIN pending)
     => (/\ rlast'.done
         /\ rlast'.result.kind = "error"
         /\ ~rlast'.result.retryable
         /\ calls' = calls
         /\ pending' = pending)]_vars

\* a resume with an id the router never issued was turned away while another
\* clarification was pending
C10_Witness ==
  /\ rlast.op = "resume"
  /\ rlast.reqId = UnknownId
  /\ rlast.done
  /\ rlast.result = Expired
  /\ DOMAIN pending # {}

\* ===================================================================
\* Properties: identity, refresh results and removal (Spec)
\* ===================================================================

\* C12: a widget keeps the id and the resolvedIntent it entered the
\* collection with until it is removed: no step that leaves the collection's
\* length alone (updateWidget, also with a partial that carries id and
\* resolvedIntent; a refresh completion) changes the id or the resolvedIntent
\* at any position, and no step changes the resolvedIntent found under an id.
C12_IdentityIsKept ==
  [][/\ Len(widgets') = Len(widgets) =>
          \A i \in DOMAIN widgets :
            /\ widgets'[i].id = widgets[i].id
            /\ widgets'[i].resolvedIntent = widgets[i].resolvedIntent
     /\ \A i \in DOMAIN widgets, j \in DOMAIN widgets' :
          widgets'[j].id = widgets[i].id =>
            widgets'[j].resolvedIntent = widgets[i].resolvedIntent]_vars

\* a hydrated widget that updateWidget has touched (lastUpdated set, data
\* still null) is in the collection under the id it was stored with
C12_Witness ==
  /\ persisted # <<>>
  /\ \E i \in DOMAIN widgets :
       /\ widgets[i].id = persisted[1].id
       /\ widgets[i].resolvedIntent = persisted[1].resolvedIntent
       /\ widgets[i].data = Null
       /\ widgets[i].lastUpdated # 0
       /\ last.emitted /\ last.saved

\* C14: when the route call of a refresh returns an error or a clarification
\* (a provider that raised included), the collection is left exactly as it
\* was, the widget stays in it with its data and lastUpdated, and neither
\* widgets:changed is emitted nor save called.
C14_FailedRefreshKeepsStale ==
  [][(/\ calls' # calls
      /\ last'.refreshed \in {"error", "clarification"})
     => (/\ widgets' = widgets
         /\ ~last'.emitted
         /\ ~last'.saved
         /\ \A c \in BagToSet(calls (-) calls') :
              c.by \in Ids(widgets) => c.by \in Ids(widgets'))]_vars

\* a refresh has just failed for a widget that is still shown with the data
\* it had
C14_Witness ==
  /\ last.refreshed = "error"
  /\ ~last.emitted
  /\ \E i \in DOMAIN widgets :
       /\ widgets[i].data # Null
       /\ widgets[i].id \notin refreshing
       /\ widgets[i].id \in DOMAIN refreshTimers

\* C15: once removeWidget(id) has taken a widget out of the collection, no
\* interval scheduled for that id is live any more, whatever happened before
\* the removal.
C15_RemoveStopsEveryTick ==
  [][\A id \in Ids(widgets) \ Ids(widgets') :
       \A h \in BagToSet(liveIntervals') : h.id # id]_vars

\* ===================================================================
\* Properties: several widgets (FleetSpec)
\* ===================================================================

\* C11: no two widgets of the collection have the same id, after any
\* sequence of addWidget, removeWidget, updateWidget, boot and refresh
\* completions; the id addWidget assigns is the id of no widget in the
\* collection, and updateWidget changes no id.
C11_IdsAreUnique ==
  /\ [](\A i, j \in DOMAIN widgets : widgets[i].id = widgets[j].id => i = j)
  /\ [][/\ Len(widgets') = Len(widgets) + 1 =>
             widgets'[Len(widgets')].id \notin Ids(widgets)
        /\ Len(widgets') = Len(widgets) =>
             \A i \in DOMAIN widgets : widgets'[i].id = widgets[i].id]_vars

\* two added widgets are in the collection, the first of them refreshed and
\* then touched by updateWidget
C11_Witness ==
  /\ persisted = <<>>
  /\ Len(widgets) = 2
  /\ widgets[1].id # widgets[2].id
  /\ widgets[1].data = SuccessDescriptor.data
  /\ last.emitted /\ last.saved /\ last.refreshed = "none"

\* C13: when a refresh's route call returns success for a widget that is in
\* the collection, that widget's data becomes the result's data and its
\* lastUpdated the time of the completion; its other fields, the other
\* widgets and the order of the collection stay as they were, although the
\* result's descriptor has a title, size and render of its own.
C13_RefreshWritesDataOnly ==
  [][(/\ calls' # calls
      /\ last'.refreshed = "success")
     => \A c \in BagToSet(calls (-) calls') :
          LET idx == findIndex(widgets, c.by) IN
          idx # 0 =>
            /\ Len(widgets') = Len(widgets)
            /\ \A i \in DOMAIN widgets : i # idx => widgets'[i] = widgets[i]
            /\ widgets'[idx] =
                 [widgets[idx] EXCEPT !.data = SuccessDescriptor.data,
                                      !.lastUpdated = now']
            /\ last'.emitted /\ last'.saved]_vars

\* the second of two hydrated widgets has just been refreshed: it has the
\* result's data under its own title, the first one is as it was loaded
C13_Witness ==
  /\ last.refreshed = "success"
  /\ last.emitted
  /\ Len(widgets) = 2
  /\ widgets[2].data = SuccessDescriptor.data
  /\ widgets[2].title # SuccessDescriptor.title
  /\ widgets[2].lastUpdated # 0
  /\ widgets[1].data = Null
  /\ widgets[1].lastUpdated = 0

\* C16: different widgets refresh independently.  While a refresh call for a
\* widget A is outstanding, started by a timer tick or by boot's refresh pass,
\* every other widget B of the collection with a non-null refreshIntervalMs
\* still gets its refresh ticks (an interval is registered for it) or has its
\* own route call outstanding beside A's.
C16_RefreshIsIndependent ==
  \A a \in refreshing :
    \A i \in DOMAIN widgets :
      (widgets[i].id # a /\ widgets[i].refreshIntervalMs # Null) =>
        \/ widgets[i].id \in refreshing
        \/ widgets[i].id \in DOMAIN refreshTimers

\* ===================================================================
\* Properties: the order of the collection (ReorderSpec)
\* ===================================================================

\* C17: reorderWidgets(orderedIds) leaves the collection a permutation of
\* what it was; the widgets orderedIds names come first, in the order
\* orderedIds gives, the widgets it does not name follow in the order they
\* had; ids that match no widget change nothing, and with an empty orderedIds
\* the order stays.
C17_ReorderIsPermutation ==
  [][("orderedIds" \in DOMAIN last')
     => LET o == last'.orderedIds
            named == {o[k] : k \in DOMAIN o} \cap Ids(widgets)
            unnamed == Ids(widgets) \ named
        IN /\ Len(widgets') = Len(widgets)
           /\ \A i \in DOMAIN widgets : \E j \in DOMAIN widgets' :
                widgets'[j] = widgets[i]
           /\ \A j, k \in DOMAIN widgets' : widgets'[j] = widgets'[k] => j = k
           /\ \A a, b \in DOMAIN o :
                (a < b /\ o[a] \in named /\ o[b] \in named) =>
                  findIndex(widgets', o[a]) < findIndex(widgets', o[b])
           /\ \A n \in named, u \in unnamed :
                findIndex(widgets', n) < findIndex(widgets', u)
           /\ \A u, v \in unnamed :
                findIndex(widgets, u) < findIndex(widgets, v) =>
                  findIndex(widgets', u) < findIndex(widgets', v)
           /\ o = <<>> => widgets' = widgets]_vars

\* reorderWidgets was given the id of no widget and then the id of the second
\* widget: that widget is first now and the one not named follows
C17_Witness ==
  /\ "orderedIds" \in DOMAIN last
  /\ last.orderedIds = <<MaxFleet + 1, 2>>
  /\ Len(widgets) = 2
  /\ widgets[1].id = 2
  /\ widgets[2].id = 1

\* ===================================================================
\* Properties: target resolution (TargetSpec)
\* ===================================================================

\* C18: when the collection holds exactly one widget, resolveTarget returns
\* that widget for every modify or remove intent, whatever its subject, raw
\* text and coin/location parameters.
C18_SingleWidgetIsTarget ==
  (handled.op # "none" /\ Len(handled.before) = 1)
    => handled.target = handled.before[1].id

\* the only widget was removed on an utterance that carries no coin or
\* location and none of whose keywords occurs in the widget's text
C18_Witness ==
  /\ handled.op = "remove"
  /\ Len(handled.before) = 1
  /\ Keywords(handled.intent) # {}
  /\ Hits(handled.before[1], Keywords(handled.intent)) = 0
  /\ DOMAIN handled.intent.parameters \cap {"coin", "location"} = {}
  /\ handled.applied = "removeWidget"
  /\ widgets = <<>>

\* C19: with two widgets or more and no unique coin/location parameter
\* match, resolveTarget returns a widget only if its keyword hit count is
\* strictly greater than that of every other widget; when the greatest hit
\* count is shared, when no keyword hits any widget and when no keyword is
\* left after the stop list, it returns no target.
C19_StrictlyGreatestOrNone ==
  LET ws == handled.before
      intent == handled.intent
      keywords == Keywords(intent)
      hits(k) == Hits(ws[k], keywords)
      uniqueCoin ==
        Param(intent, "coin") # <<>> /\ Len(CoinMatches(intent, ws)) = 1
      uniqueLocation ==
        /\ Param(intent, "location") # <<>>
        /\ Len(LocationMatches(intent, ws)) = 1
  IN (handled.op # "none" /\ Len(ws) >= 2
        /\ ~uniqueCoin /\ ~uniqueLocation)
     => /\ handled.target # Null =>
             \E k \in DOMAIN ws :
               /\ ws[k].id = handled.target
               /\ \A j \in DOMAIN ws \ {k} : hits(k) > hits(j)
        /\ (\A k \in DOMAIN ws : \E j \in DOMAIN ws \ {k} : hits(j) >= hits(k))
             => handled.target = Null
        /\ (\A k \in DOMAIN ws : hits(k) = 0) => handled.target = Null
        /\ keywords = {} => handled.target = Null

\* among two widgets that both have a keyword hit and no parameter match,
\* the one with more hits was resolved
C19_Witness ==
  /\ handled.op # "none"
  /\ Len(handled.before) = 2
  /\ DOMAIN handled.intent.parameters \cap {"coin", "location"} = {}
  /\ handled.target # Null
  /\ \A k \in DOMAIN handled.before :
       Hits(handled.before[k], Keywords(handled.intent)) >= 1

\* C20: when target resolution yields no target for a modify or remove
\* utterance (empty collection or ambiguous), handling it changes neither
\* the widget collection nor the timer map nor the in-flight set.
C20_NoTargetNoMutation ==
  [][(handled' # handled /\ handled'.target = Null)
     => UNCHANGED <<widgets, refreshTimers, refreshing>>]_vars

\* an ambiguous remove met two widgets, one with a timer and a refresh in
\* flight, and left them
C20_Witness ==
  /\ handled.op = "remove"
  /\ handled.target = Null
  /\ handled.message = "info"
  /\ Len(handled.before) = 2
  /\ widgets = handled.before
  /\ refreshing # {}
  /\ DOMAIN refreshTimers # {}

\* C22: a widget id is in the in-flight set exactly while a route call that
\* refreshWidget made for it has not settled; when the call settles, whatever
\* its result and whether or not the widget is still there, the id leaves the
\* set, and a tick for a widget still in the collection starts a route call.
C22_MarkerWhileOutstanding ==
  /\ [](\A id \in 1 .. nextWidgetId :
          id \in refreshing <=> OutstandingFor(calls, id) >= 1)
  /\ [][\A c \in BagToSet(calls) :
          (c.by # 0 /\ calls' = calls (-) SetToBag({c}))
          => /\ c.by \notin refreshing'
             /\ c.by \in Ids(widgets') =>
                  \A m \in RefreshMatchVectors :
                    refreshWidget(RefreshState', widgets', c.by, m,
                                  aiGenerator).guard = "started"]_vars

\* a refresh came back as a clarification: nothing is in flight any more and
\* the widget's interval is live for its next tick
C22_Witness ==
  /\ last.refreshed = "clarification"
  /\ refreshing = {}
  /\ calls = EmptyBag
  /\ \E h \in BagToSet(liveIntervals) : h.id \in Ids(widgets)

\* C23: when updateWidget changes the refreshIntervalMs of a widget of the
\* collection, the timer the widget had is cancelled: with a non-null new
\* value exactly one interval is live for the id afterwards, it has the new
\* period and it is the one in the timer map; with null none is live and the
\* map has no entry for the id.
C23_IntervalChangeRestartsTimer ==
  [][\A i \in DOMAIN widgets :
       (/\ Len(widgets') = Len(widgets)
        /\ widgets'[i].id = widgets[i].id
        /\ widgets'[i].refreshIntervalMs # widgets[i].refreshIntervalMs)
       => LET id == widgets[i].id
              ms == widgets'[i].refreshIntervalMs
              liveFor == [h \in {x \in DOMAIN liveIntervals' : x.id = id} |->
                            liveIntervals'[h]]
          IN IF ms = Null
             THEN /\ BagCardinality(liveFor) = 0
                  /\ id \notin DOMAIN refreshTimers'
             ELSE /\ BagCardinality(liveFor) = 1
                  /\ id \in DOMAIN refreshTimers'
                  /\ refreshTimers'[id].ms = ms
                  /\ BagIn(refreshTimers'[id], liveIntervals')]_vars

\* C24, as stated: boot publishes every persisted record, in stored order,
\* with data null and lastUpdated 0, before the first route call of its
\* refresh pass, and a widget whose refreshIntervalMs is null has data null
\* and lastUpdated 0 when boot completes.
C24_HydratedPublishedFirst ==
  [][/\ (bootPhase = "none" /\ bootPhase' # "none")
          => /\ last'.emitted
             /\ last'.published.outstanding = 0
             /\ Len(last'.published.widgets) = Len(persisted)
             /\ \A i \in DOMAIN persisted :
                  last'.published.widgets[i]
                    = With(With(persisted[i], "data", Null), "lastUpdated", 0)
     /\ (bootPhase # "done" /\ bootPhase' = "done")
          => \A i \in DOMAIN widgets' :
               widgets'[i].refreshIntervalMs = Null
                 => widgets'[i].data = Null /\ widgets'[i].lastUpdated = 0]_vars

\* C24, amended: the publication is as stated; a widget hydrated with
\* refreshIntervalMs null has data null and lastUpdated 0 after boot's
\* synchronous part, and as long as its refreshIntervalMs is null and its
\* lastUpdated 0 only updateWidget and removeWidget change it: the refresh
\* pass and its completions leave it as it is.
C24_HydratedPublishedUntouched ==
  [][/\ (bootPhase = "none" /\ bootPhase' # "none")
          => /\ last'.emitted
             /\ last'.published.outstanding = 0
             /\ Len(last'.published.widgets) = Len(persisted)
             /\ \A i \in DOMAIN persisted :
                  last'.published.widgets[i]
                    = With(With(persisted[i], "data", Null), "lastUpdated", 0)
             /\ \A i \in DOMAIN widgets' :
                  widgets'[i].refreshIntervalMs = Null
                    => widgets'[i].data = Null /\ widgets'[i].lastUpdated = 0
     /\ bootPhase # "none"
          => \A i \in DOMAIN widgets :
               (/\ widgets[i].refreshIntervalMs = Null
                /\ widgets[i].lastUpdated = 0
                /\ calls' # calls)
               => /\ Len(widgets') = Len(widgets)
                  /\ widgets'[i] = widgets[i]]_vars

\* boot has completed after waiting for a refresh, and a widget persisted
\* with refreshIntervalMs null, not updated meanwhile, is as it was hydrated
C24_Witness ==
  /\ bootPhase = "done"
  /\ last.refreshed \in {"success", "error"}
  /\ \E i \in DOMAIN widgets :
       /\ widgets[i].refreshIntervalMs = Null
       /\ widgets[i].data = Null
       /\ widgets[i].lastUpdated = 0
  /\ \E i \in DOMAIN widgets : widgets[i].data # Null

C26_ProviderFailureIsRetryable ==
  [][(/\ rlast'.step = "settle"
      /\ rlast'.to = "source"
      /\ rlast'.outcome.kind = "raise")
     => /\ rlast'.done
        /\ rlast'.result.kind = "error"
        /\ rlast'.result.retryable
        /\ rlast'.source \in Sources
        /\ rlast'.result.message[2] = rlast'.source
        /\ rlast'.result.message[3] =
             (IF rlast'.op = "route" THEN "failed unexpectedly"
                                     ELSE "failed on re-resolve")
        /\ pending' = pending
        /\ nextRequestId' = nextRequestId]_vars

\* the provider called again by a resume raised, while the answer to another
\* clarification was still awaited
C26_Witness ==
  /\ rlast.step = "settle"
  /\ rlast.op = "resume"
  /\ rlast.to = "source"
  /\ rlast.outcome.kind = "raise"
  /\ rlast.result = SourceFailedOnResume(rlast.source)
  /\ DOMAIN pending # {}


\* C27: when no provider scores at least 0.5 for a routed create intent, route
\* returns at once an error with retryable false if no fallback is configured;
\* otherwise it awaits the fallback and returns an error with retryable false
\* if the fallback raises and the fallback's own result if it does not.
C27_FallbackOutcome ==
  /\ [][(/\ rlast'.op = "route"
         /\ rlast'.step = "call"
         /\ rlast'.intent.action = "create"
         /\ \A s \in Sources :
              \/ rlast'.scores[s] = MatchThrows
              \/ rlast'.scores[s] < CONFIDENCE_THRESHOLD)
        => IF aiGenerator
           THEN rlast'.to = "fallback" /\ ~rlast'.done
           ELSE /\ rlast'.to = "return"
                /\ rlast'.done
                /\ rlast'.result.kind = "error"
                /\ ~rlast'.result.retryable
                /\ calls' = calls]_vars
  /\ [][(/\ rlast'.op = "route"
         /\ rlast'.step = "settle"
         /\ rlast'.to = "fallback")
        => /\ rlast'.done
           /\ IF rlast'.outcome.kind = "raise"
              THEN /\ rlast'.result.kind = "error"
                   /\ ~rlast'.result.retryable
              ELSE rlast'.result = rlast'.outcome]_vars

\* route returned the non-retryable error for a fallback that raised
C27_Witness ==
  /\ rlast.op = "route"
  /\ rlast.step = "settle"
  /\ rlast.to = "fallback"
  /\ rlast.outcome.kind = "raise"
  /\ rlast.result.kind = "error"
  /\ ~rlast.result.retryable


\* C28: in a routed create intent a provider whose match() raises does not
\* qualify: every provider's match() is still called, the dispatch is the one
\* the same scores give with 0 in place of each raise (the highest score of at
\* least 0.5, the earliest registered among equals, else the fallback or the
\* error), and resolve() is called on no provider whose match() raised.
C28_RaisingMatchIsSkipped ==
  [][(/\ rlast'.op = "route"
      /\ rlast'.step = "call"
      /\ rlast'.intent.action = "create"
      /\ \E s \in Sources : rlast'.scores[s] = MatchThrows)
     => LET m == rlast'.scores
            m0 == [s \in Sources |-> IF m[s] = MatchThrows THEN 0 ELSE m[s]]
            q0 == {s \in Sources : m0[s] >= CONFIDENCE_THRESHOLD}
            called == calls' (-) calls
        IN /\ rlast'.matched = Sources
           /\ IF q0 = {}
              THEN rlast'.to = (IF aiGenerator THEN "fallback" ELSE "return")
              ELSE /\ rlast'.to = "source"
                   /\ rlast'.source =
                        CHOOSE s \in q0 :
                          \A t \in q0 :
                            m0[t] < m0[s] \/ (m0[t] = m0[s] /\ s <= t)
           /\ \A c \in BagToSet(called) :
                c.to = "source" => m[c.source] # MatchThrows]_vars

\* resolve() is awaited on a provider registered after one whose match()
\* raised, and another provider in between scored lower
C28_Witness ==
  /\ rlast.op = "route"
  /\ rlast.step = "call"
  /\ rlast.to = "source"
  /\ \E s, t \in Sources :
       /\ s < t
       /\ rlast.scores[s] = MatchThrows
       /\ rlast.source = t
       /\ \E c \in BagToSet(calls) : c.to = "source" /\ c.source = t /\ c.by = 0
  /\ \E u \in Sources :
       /\ rlast.scores[u] # MatchThrows
       /\ rlast.scores[u] >= CONFIDENCE_THRESHOLD
       /\ u # rlast.source


\* C29: the intent a resume passes to the provider is the stored intent with
\* subject replaced by the answer and, when the stored context has a
\* parameterKey, with parameters[parameterKey] set to the answer; action, raw
\* and every other parameter are the stored ones, without a parameterKey the
\* parameters are the stored ones, and the stored intent object, the one the
\* route call was given, is left as it was.
C29_AnswerMergedIntoCopy ==
  [][(/\ rlast'.op = "resume"
      /\ rlast'.step = "call"
      /\ rlast'.to = "source")
     => LET e == pending[rlast'.reqId]
            i == rlast'.intent
            answer == rlast'.answer
        IN /\ \E c \in BagToSet(calls') :
                /\ calls' = calls (+) SetToBag({c})
                /\ c.intent = i
                /\ c.source = e.source
           /\ i.subject = answer
           /\ i.action = e.intent.action
           /\ i.raw = e.intent.raw
           /\ i.targetWidgetId = e.intent.targetWidgetId
           /\ DOMAIN i = DOMAIN e.intent
           /\ IF "parameterKey" \in DOMAIN e.context
              THEN LET key == e.context.parameterKey IN
                   /\ DOMAIN i.parameters = DOMAIN e.intent.parameters \cup {key}
                   /\ i.parameters[key] = answer
                   /\ \A k \in DOMAIN e.intent.parameters \ {key} :
                        i.parameters[k] = e.intent.parameters[k]
              ELSE i.parameters = e.intent.parameters
           /\ rlast'.stored = e.intent]_vars

\* a resume gave the provider an intent with the answer as location beside
\* the parameter the stored intent had, whose subject is still its own
C29_Witness ==
  /\ rlast.op = "resume"
  /\ rlast.step = "call"
  /\ rlast.to = "source"
  /\ rlast.intent.parameters = [units |-> "metric", location |-> rlast.answer]
  /\ rlast.intent.subject = rlast.answer
  /\ rlast.stored.subject = "weather"
  /\ rlast.stored.parameters = [units |-> "metric"]


\* C30: pending clarifications are independent. No step of the router removes
\* or changes a pending entry other than a resumeAfterClarification with that
\* entry's id: not a route call, not a resume with another id, not the
\* completion of a provider call, which stores a clarification only under an
\* id not issued before. A resume with an id that is pending reaches that
\* entry's provider and removes that entry alone, whatever else is pending.
C30_PendingEntriesIndependent ==
  [][/\ \A id \in DOMAIN pending :
          ~(rlast'.op = "resume" /\ rlast'.step = "call" /\ rlast'.reqId = id)
          => /\ id \in DOMAIN pending'
             /\ pending'[id] = pending[id]
     /\ DOMAIN pending' \ DOMAIN pending \subseteq {nextRequestId}
     /\ (/\ rlast'.op = "resume"
         /\ rlast'.step = "call"
         /\ rlast'.reqId \in DOMAIN pending)
        => /\ rlast'.to = "source"
           /\ rlast'.source = pending[rlast'.reqId].source
           /\ DOMAIN pending' = DOMAIN pending \ {rlast'.reqId}
           /\ \E c \in BagToSet(calls') :
                /\ calls' = calls (+) SetToBag({c})
                /\ c.op = "resume" /\ c.reqId = rlast'.reqId]_vars

\* of two clarifications pending at once the one issued later was resumed
\* first, and the earlier one is still pending and was never resumed
C30_Witness ==
  /\ rlast.op = "resume"
  /\ rlast.step = "call"
  /\ rlast.to = "source"
  /\ rlast.reqId = 2
  /\ 1 \in DOMAIN pending
  /\ resumeLog[1].reached = 0
  /\ ~resumeLog[1].expired


\* ===================================================================
\* Properties: the Intent Parser (ParserSpec)
\* ===================================================================

\* C21: for every text, the empty text and a text of white space alone
\* included, the subject parse returns is not the empty string.
C21_SubjectNeverEmpty ==
  "subject" \in DOMAIN parsed => parsed.subject # <<>>

\* ===================================================================
\* Properties: parameter match of the target resolver (TargetSpec)
\* ===================================================================

\* C31: a modify or remove intent met by two or more widgets is resolved to
\* the one widget whose resolvedIntent has the intent's coin, when the intent
\* has a coin and exactly one widget has it; else to the one widget whose
\* resolvedIntent location equals the intent's location in lower case, when
\* the intent has a location and exactly one widget has it; else the keyword
\* scan decides, also when a parameter matched no widget or several.
C31_ParameterMatch ==
  [][(handled' # handled /\ Len(handled'.before) >= 2)
     => LET intent == handled'.intent
            ws == handled'.before
            has(key) == key \in DOMAIN intent.parameters
            coins == IF has("coin")
                     THEN {i \in DOMAIN ws :
                             /\ "coin" \in DOMAIN ws[i].resolvedIntent.parameters
                             /\ ws[i].resolvedIntent.parameters.coin
                                  = intent.parameters.coin}
                     ELSE {}
            locations ==
              IF has("location")
              THEN {i \in DOMAIN ws :
                      /\ "location" \in DOMAIN ws[i].resolvedIntent.parameters
                      /\ toLowerCase(ws[i].resolvedIntent.parameters.location)
                           = toLowerCase(intent.parameters.location)}
              ELSE {}
        IN IF Cardinality(coins) = 1
           THEN \A i \in coins : handled'.target = ws[i].id
           ELSE IF Cardinality(locations) = 1
           THEN \A i \in locations : handled'.target = ws[i].id
           ELSE handled'.target = TextMatch(intent, ws).target]_vars

\* the intent's coin is the coin of no widget and its location, written in
\* another case, is the location of one: that widget is the target
C31_Witness ==
  /\ handled.op # "none"
  /\ Len(handled.before) >= 2
  /\ {"coin", "location"} \subseteq DOMAIN handled.intent.parameters
  /\ \A i \in DOMAIN handled.before :
       "coin" \in DOMAIN handled.before[i].resolvedIntent.parameters =>
         handled.before[i].resolvedIntent.parameters.coin
           # handled.intent.parameters.coin
  /\ \E i \in DOMAIN handled.before :
       /\ handled.target = handled.before[i].id
       /\ "location" \in DOMAIN handled.before[i].resolvedIntent.parameters

\* C32: the action of every parsed text is the result of the cascade on
\* standalone words: a reference with a modify verb gives modify, "show ...
\* as chart|table|card" with a reference gives modify, a remove token or
\* phrase anywhere in the text gives remove, otherwise create; a word that
\* only contains a verb or a token as a substring triggers nothing.
C32_ActionCascade ==
  "action" \in DOMAIN parsed =>
    LET lower == toLowerCaseText(trim(parsed.raw))
        reference == hasReference(lower)
        modifyVerb ==
          \E i \in DOMAIN lower :
            lower[i] \in {"change", "make", "update", "switch", "modify",
                          "resize", "convert", "set"}
        removeToken ==
          \/ \E i \in DOMAIN lower :
               lower[i] \in {"remove", "delete", "close", "dismiss", "hide",
                             "clear"}
          \/ \E i \in 1..(Len(lower) - 4) :
               SubSeq(lower, i, i + 4) = <<"get", " ", "rid", " ", "of">>
    IN parsed.action =
         IF reference /\ modifyVerb THEN "modify"
         ELSE IF ShowAs(lower) /\ reference THEN "modify"
         ELSE IF removeToken THEN "remove"
         ELSE "create"

\* C33: the parameters of a parsed text of the form "X news", X a word that
\* is no generic stop word, hold the topic X in lower case.
C33_TopicOfNews ==
  "action" \in DOMAIN parsed =>
    LET lower == toLowerCaseText(trim(parsed.raw))
    IN (/\ Len(lower) = 3
        /\ lower[1] \in {"bitcoin", "sunset", "denver", "hideout"}
        /\ lower[2] = " "
        /\ lower[3] = "news")
       => /\ "topic" \in DOMAIN parsed.parameters
          /\ parsed.parameters.topic = <<lower[1]>>


\* ===================================================================
\* Properties: the Persistence Layer (PersistenceSpec)
\* ===================================================================

\* C34: at most one debounced write is pending; a write made by the timer is
\* the write of the last save: it happens once that save's delay has
\* elapsed, never before, it stores the stripped contents of the last
\* save's collection when the store accepts it, and no other write is
\* pending after it.
C34_DebouncedSaveWritesOnce ==
  [][/\ Cardinality(DOMAIN timeouts') <= 1
     /\ (plast' # plast /\ plast'.op = "timeout") =>
          /\ lastCall.op = "save"
          /\ plast'.handle = debounceTimer
          /\ plast'.widgets = lastCall.widgets
          /\ clock >= lastCall.at + DebounceTicks
          /\ plast'.written =>
               localStorage' = Item(Stripped(arrays[lastCall.widgets]))
          /\ timeouts' = EmptyObject]_vars

\* the timer has written the collection of a save that cancelled the write
\* of an earlier one
C34_Witness ==
  /\ plast.op = "timeout"
  /\ plast.written
  /\ lastCall.op = "save"
  /\ lastCall.cancelled
  /\ plast.handle = debounceTimer
  /\ localStorage.stored
  /\ localStorage.value # <<>>

\* C35: after clear() the stored widget data is absent, and after a
\* flush(w) whose write the store accepted it is the stripped form of w,
\* until the next call of save, flush or clear, whatever time passes: no
\* write of an earlier save is pending.
C35_ClearAndFlushCancel ==
  /\ lastCall.op \in {"clear", "flush"} => timeouts = EmptyObject
  /\ lastCall.op = "clear" => localStorage = NoItem
  /\ (lastCall.op = "flush" /\ lastCall.written) =>
       localStorage = Item(lastCall.stripped)

\* clear() cancelled the write of a save, and its delay has elapsed since
C35_Witness ==
  /\ lastCall.op = "clear"
  /\ lastCall.cancelled
  /\ clock >= lastCall.at + DebounceTicks
  /\ localStorage = NoItem


\* ===================================================================
\* Properties: the Chat Shell (ShellSpec)
\* ===================================================================

\* C36: a submitted text that is not blank is emitted as
\* clarification:resolved, with the pending request id and the trimmed text
\* as answer, when a clarification is pending, and that emission clears the
\* pending state; it is emitted as user:message when none is pending.
C36_TextAnswersPendingClarification ==
  [][(slast'.op = "submit" /\ slast'.seq # slast.seq) =>
       IF pendingClarification # NoClarification
       THEN /\ slast'.emitted =
                 [event |-> "clarification:resolved",
                  requestId |-> pendingClarification.requestId,
                  answer |-> word(trim(slast'.text))]
            /\ pendingClarification' = NoClarification
       ELSE /\ slast'.emitted =
                 [event |-> "user:message", text |-> word(trim(slast'.text))]
            /\ pendingClarification' = NoClarification]_vars

\* a text with white space around it has answered a pending clarification
C36_Witness ==
  /\ slast.op = "submit"
  /\ slast.emitted.event = "clarification:resolved"
  /\ slast.emitted.requestId \in IssuedIds
  /\ Len(slast.text) > 1
  /\ pendingClarification = NoClarification

\* C40: a click on a chip emits clarification:resolved with the request id
\* of the clarification the chip was rendered for.
C40_ChipAnswersItsRequest ==
  [][(slast'.op = "click" /\ slast'.seq # slast.seq) =>
       slast'.emitted.requestId = slast'.chip]_vars


\* ===================================================================
\* Properties: intervals and refreshes of the Lifecycle Manager (Spec)
\* ===================================================================

\* C37: every interval scheduled and not cancelled is the one the timer map
\* records for its widget id, so at most one interval is live per widget
\* id in every reachable state.
C37_LiveIntervalsAreRecorded ==
  \A h \in BagToSet(liveIntervals) :
    /\ CopiesIn(h, liveIntervals) = 1
    /\ h.id \in DOMAIN refreshTimers
    /\ refreshTimers[h.id] = h

\* C38: when a widget's refresh call returns success, every key that
\* updateWidget set while the call was outstanding has the value the last
\* such update gave it, next to the data of the result.
C38_UpdateDuringRefreshKept ==
  [][(/\ calls' # calls
      /\ last'.refreshed = "success")
     => \A c \in BagToSet(calls (-) calls') :
          LET idx == findIndex(widgets', c.by) IN
          (idx # 0 /\ c.by \in DOMAIN overlap.during) =>
            /\ \A k \in DOMAIN overlap.during[c.by] :
                 widgets'[idx][k] = overlap.during[c.by][k]
            /\ widgets'[idx].data = SuccessDescriptor.data]_vars

\* a refresh has returned success for a widget renamed and resized while
\* the call was outstanding
C38_Witness ==
  /\ overlap.settled.kind = "success"
  /\ overlap.settled.partial = [title |-> "Renamed", size |-> "large"]
  /\ \E i \in DOMAIN widgets :
       /\ widgets[i].id = overlap.settled.id
       /\ widgets[i].title = "Renamed"
       /\ widgets[i].size = "large"
       /\ widgets[i].data = SuccessDescriptor.data

\* C39: a background refresh, from the tick that starts its route call to
\* the completion of the call, leaves the Router's pending map as it was,
\* whatever the call returns.
C39_RefreshLeavesPendingMap ==
  [][(\E c \in BagToSet(calls (-) calls') \cup BagToSet(calls' (-) calls) :
        c.by # 0)
     => pending' = pending]_vars

====
